---- MODULE Spec2Model ----
(***************************************************************************)
(* Live-session engine of bykotofff/dnd-game (backend/app).                *)
(*                                                                         *)
(* The module models the WebSocket side of the backend:                    *)
(*   - ConnectionManager (api/websocket.py:26-108), the in-memory registry *)
(*     game_id -> {user_id: websocket} and user_id -> game_id;             *)
(*   - RedisClient (core/redis_client.py), an expiring key/value store;    *)
(*   - the pending-roll wrappers store/get/clear_pending_roll_check        *)
(*     (api/websocket.py:828-874);                                         *)
(*   - the message handlers handle_player_action / handle_dice_roll and    *)
(*     the background task handle_ai_response_with_dice_check.             *)
(*                                                                         *)
(* Python dicts are functions whose DOMAIN is the set of keys present.     *)
(* A Python Optional is None (the empty tuple) or Some(v).                  *)
(***************************************************************************)
EXTENDS Integers, Sequences, FiniteSets, TLC

(***************************************************************************)
(* Bounds of the model.                                                    *)
(***************************************************************************)
MaxHandles == 2      \* websocket connections opened in one behaviour of Spec
MaxSockets == 3      \* websocket connections opened in one behaviour at all
MaxMsgs    == 2      \* client messages received in one behaviour
MaxTicks   == 1      \* clock ticks in one behaviour

(***************************************************************************)
(* Program constants.                                                      *)
(***************************************************************************)
PENDING_ROLL_TTL  == 300     \* websocket.py:838, seconds
GAME_SESSION_TTL  == 3600    \* config.py:65, seconds
CONTEXT_CACHE_TTL == 1800    \* config.py:71, seconds
TickSeconds       == 300     \* seconds the clock advances per tick

Users == {"u1", "u2"}
Games == {"g1", "g2"}
Handles == 1..MaxSockets
\* Python Optional: None is the empty tuple, a value v is <<v>>.
None == << >>
Some(v) == <<v>>

\* user.username of the User row behind a user id (unique per user).
username(u) == IF u = "u1" THEN "Lyra" ELSE "Borin"

(***************************************************************************)
(* Python dict helpers.                                                    *)
(***************************************************************************)
EmptyDict == << >>
DictSet(d, k, v) == [x \in (DOMAIN d) \cup {k} |-> IF x = k THEN v ELSE d[x]]
DictPop(d, k) == [x \in (DOMAIN d) \ {k} |-> d[x]]
DictGet(d, k, default) == IF k \in DOMAIN d THEN d[k] ELSE default

VARIABLES
    active_connections,   \* ConnectionManager.active_connections
    user_games,           \* ConnectionManager.user_games
    ws,                   \* per websocket: the endpoint coroutine serving it
    redis,                \* the Redis keyspace: key -> [val, exp]
    now,                  \* wall clock, seconds
    ticks,                \* clock ticks taken (bounded)
    tasks,                \* background tasks made by asyncio.create_task
    sent,                 \* the envelopes handed to send_text so far
    msgs,                 \* client messages received so far (history)
    puts,                 \* history: calls of store/clear_pending_roll_check
    key_order,            \* per bucket of active_connections: its keys in
                          \* insertion order, a deleted key leaving a hole
    bcast,                \* the broadcast_to_game call that is suspended at
                          \* an await of send_text, if any
    game,                 \* the row of game g1 in table games
    game_obj,             \* a Game object in memory, its methods called on it
    last_call,            \* history: the last call of a method of Game
    requests,             \* join_game requests in flight: each with the Game
                          \* object its own database session loaded
    roll                  \* history: the last call of the dice service or of
                          \* the resolution of a check, with what it returned

vars == <<active_connections, user_games, ws, redis, now, ticks, tasks, sent,
         msgs, puts, key_order, bcast, game, game_obj, last_call, requests, roll>>

(***************************************************************************)
(* RedisClient (core/redis_client.py).  A key maps to [val, exp]; exp is   *)
(* the second at which Redis drops the key, NoExpiry for a key without TTL.*)
(* A key whose expiry has passed is absent for every command.              *)
(***************************************************************************)
NoExpiry == -1

\* The public methods class RedisClient defines (redis_client.py:12-283).
\* The class has no __getattr__: any other attribute raises AttributeError.
RedisClientMethods ==
    {"connect", "disconnect", "health_check", "set", "get", "delete", "exists",
     "expire", "lpush", "rpush", "lrange", "ltrim", "hset", "hget", "hgetall",
     "hdel", "set_game_state", "get_game_state", "add_game_message",
     "get_game_messages", "set_user_session", "get_user_session",
     "delete_user_session", "cache_ai_context", "get_ai_context",
     "set_active_players", "get_active_players", "add_active_player",
     "remove_active_player"}

\* Python values handed to RedisClient.set are tagged with their type:
\* Doc(v) is a dict or a list, Str(s) a str.  json.dumps of a document is
\* kept as [json |-> v], a raw string as [text |-> s], so an encoded
\* document and a plain string stay different in the keyspace.
Doc(v) == [doc |-> v]
Str(s) == [str |-> s]
IsDoc(value) == DOMAIN value = {"doc"}
JsonDumps(v) == [json |-> v]
IsJsonText(x) == DOMAIN x = {"json"}
JsonLoads(x) == x.json

RedisLive(r, k, t) == k \in DOMAIN r /\ (r[k].exp = NoExpiry \/ t < r[k].exp)

\* RedisClient.set: dicts and lists are JSON-encoded; SETEX when ttl is truthy.
RedisClient_set(r, k, value, ttl, t) ==
    [redis |-> DictSet(r, k,
                  [val |-> IF IsDoc(value) THEN JsonDumps(value.doc)
                                           ELSE [text |-> value.str],
                   exp |-> IF ttl # 0 THEN t + ttl ELSE NoExpiry]),
     ok |-> TRUE]

\* RedisClient.get: None for a missing key; the decoded document when the
\* text is JSON, else the text itself.
RedisClient_get(r, k, t) ==
    IF ~RedisLive(r, k, t) THEN None
    ELSE IF IsJsonText(r[k].val) THEN Some(JsonLoads(r[k].val))
    ELSE Some(r[k].val.text)

\* RedisClient.delete: DEL returns the number of keys removed.
RedisClient_delete(r, k, t) ==
    [redis |-> DictPop(r, k), ok |-> RedisLive(r, k, t)]

\* Keys that Redis has dropped at time t.
RedisExpire(r, t) ==
    [k \in {x \in DOMAIN r : RedisLive(r, x, t)} |-> r[k]]

ActivePlayersKey(g) == <<"active_players", g>>
PendingRollKey(g, player_name) == <<"pending_roll", g, player_name>>
AiContextKey(g) == <<"ai_context", g>>

get_active_players(r, g, t) ==
    LET result == RedisClient_get(r, ActivePlayersKey(g), t)
    IN  IF result = None THEN << >> ELSE result[1]

set_active_players(r, g, player_ids, t) ==
    RedisClient_set(r, ActivePlayersKey(g), Doc(player_ids), GAME_SESSION_TTL, t)

InList(x, list) == \E i \in 1..Len(list) : list[i] = x
ListRemove(list, x) ==
    LET i == CHOOSE j \in 1..Len(list) :
                 list[j] = x /\ \A m \in 1..(j - 1) : list[m] # x
    IN  SubSeq(list, 1, i - 1) \o SubSeq(list, i + 1, Len(list))

add_active_player(r, g, player_id, t) ==
    LET players == get_active_players(r, g, t)
    IN  IF ~InList(player_id, players)
        THEN set_active_players(r, g, Append(players, player_id), t).redis
        ELSE r

remove_active_player(r, g, player_id, t) ==
    LET players == get_active_players(r, g, t)
    IN  IF InList(player_id, players)
        THEN set_active_players(r, g, ListRemove(players, player_id), t).redis
        ELSE r

GameMessagesKey(g) == <<"game_messages", g>>
HISTORY_LAST == 99      \* redis_client.py:224, ltrim(key, 0, 99)
HISTORY_SENT == 20      \* websocket.py:219, get_game_messages(limit=20)

\* The list under key k, empty when the key is missing.
RedisList(r, k, t) == IF RedisLive(r, k, t) THEN r[k].val.list ELSE << >>

\* RedisClient.lpush: the value goes to the head of the list.
RedisClient_lpush(r, k, value, t) ==
    DictSet(r, k, [val |-> [list |-> <<value>> \o RedisList(r, k, t)],
                   exp |-> IF RedisLive(r, k, t) THEN r[k].exp ELSE NoExpiry])

\* RedisClient.ltrim(key, 0, last): the list keeps its first last + 1 items.
RedisClient_ltrim(r, k, last, t) ==
    IF ~RedisLive(r, k, t) THEN r
    ELSE [r EXCEPT ![k].val.list =
             SubSeq(@, 1, IF Len(@) < last + 1 THEN Len(@) ELSE last + 1)]

\* RedisClient.add_game_message
add_game_message(r, g, message, t) ==
    RedisClient_ltrim(RedisClient_lpush(r, GameMessagesKey(g), message, t),
                      GameMessagesKey(g), HISTORY_LAST, t)

\* RedisClient.get_game_messages: lrange(key, 0, limit - 1).
get_game_messages(r, g, limit, t) ==
    LET list == RedisList(r, GameMessagesKey(g), t)
    IN  SubSeq(list, 1, IF Len(list) < limit THEN Len(list) ELSE limit)

cache_ai_context(r, g, context, t) ==
    RedisClient_set(r, AiContextKey(g), Str(context), CONTEXT_CACHE_TTL, t)

(***************************************************************************)
(* Pending roll checks (api/websocket.py:828-874).  The three wrappers     *)
(* look a method up on the RedisClient instance and swallow every          *)
(* exception, AttributeError of a method the class does not define         *)
(* included.                                                               *)
(***************************************************************************)
HasMethod(name) == name \in RedisClientMethods

\* store_pending_roll_check: redis_client.set_with_expiry(key, data, 300).
store_pending_roll_check(r, g, player_name, check_data, t) ==
    IF HasMethod("set_with_expiry")
    THEN RedisClient_set(r, PendingRollKey(g, player_name), Doc(check_data),
                         PENDING_ROLL_TTL, t)
    ELSE [redis |-> r, ok |-> FALSE]          \* except Exception: return False

\* A get that answers with a check whatever the keyspace holds (a variant
\* of get_pending_roll_check used to probe the properties below).
get_pending_roll_check_phantom(r, g, player_name, t) ==
    Some([dc |-> 15, modifier |-> 0])

\* get_pending_roll_check: redis_client.get_json(key).
get_pending_roll_check(r, g, player_name, t) ==
    IF HasMethod("get_json")
    THEN RedisClient_get(r, PendingRollKey(g, player_name), t)
    ELSE None                                  \* except Exception: return None

\* clear_pending_roll_check: redis_client.delete(key).
clear_pending_roll_check(r, g, player_name, t) ==
    IF HasMethod("delete")
    THEN RedisClient_delete(r, PendingRollKey(g, player_name), t)
    ELSE [redis |-> r, ok |-> FALSE]

(***************************************************************************)
(* DiceService (services/dice_service.py).  A notation is the tuple of its *)
(* characters.                                                             *)
(***************************************************************************)
Digits == {"0", "1", "2", "3", "4", "5", "6", "7", "8", "9"}
DigitVal(c) ==
    CASE c = "0" -> 0 [] c = "1" -> 1 [] c = "2" -> 2 [] c = "3" -> 3
      [] c = "4" -> 4 [] c = "5" -> 5 [] c = "6" -> 6 [] c = "7" -> 7
      [] c = "8" -> 8 [] c = "9" -> 9

\* str.lower() on the characters a notation is made of.
LowerChar(c) == IF c = "D" THEN "d" ELSE c
IsSpace(c) == c = " "

RECURSIVE StripLeft(_)
StripLeft(s) == IF s # << >> /\ IsSpace(Head(s)) THEN StripLeft(Tail(s)) ELSE s
RECURSIVE StripRight(_)
StripRight(s) ==
    IF s # << >> /\ IsSpace(s[Len(s)]) THEN StripRight(SubSeq(s, 1, Len(s) - 1))
    ELSE s
\* str.strip()
Strip(s) == StripRight(StripLeft(s))
\* str.lower().replace(" ", "")
Lower(s) == [i \in 1..Len(s) |-> LowerChar(s[i])]
RECURSIVE RemoveSpaces(_)
RemoveSpaces(s) ==
    IF s = << >> THEN << >>
    ELSE IF IsSpace(Head(s)) THEN RemoveSpaces(Tail(s))
    ELSE <<Head(s)>> \o RemoveSpaces(Tail(s))

\* Index after the longest run of digits of s starting at i (regex \d+).
RECURSIVE SpanDigits(_, _)
SpanDigits(s, i) ==
    IF i <= Len(s) /\ s[i] \in Digits THEN SpanDigits(s, i + 1) ELSE i

\* int() of a run of digits.
RECURSIVE ToInt(_)
ToInt(ds) ==
    IF ds = << >> THEN 0
    ELSE 10 * ToInt(SubSeq(ds, 1, Len(ds) - 1)) + DigitVal(ds[Len(ds)])

SpecialNotations ==
    {<<"d", "4">>, <<"d", "6">>, <<"d", "8">>, <<"d", "1", "0">>,
     <<"d", "1", "2">>, <<"d", "2", "0">>, <<"d", "1", "0", "0">>}

\* parse_dice_notation: dice_pattern.match anchors at the start only.
parse_dice_notation(raw) ==
    LET notation == RemoveSpaces(Lower(Strip(raw)))
        c_end == SpanDigits(notation, 1)            \* (?P<count>\d+)?
        s_end == SpanDigits(notation, c_end + 1)    \* d(?P<sides>\d+)
        m_end == SpanDigits(notation, s_end + 1)    \* (?P<modifier>[+-]\d+)?
        matched == /\ c_end <= Len(notation)
                   /\ notation[c_end] = "d"
                   /\ s_end > c_end + 1
        has_mod == /\ s_end <= Len(notation)
                   /\ notation[s_end] \in {"+", "-"}
                   /\ m_end > s_end + 1
        mod_abs == ToInt(SubSeq(notation, s_end + 1, m_end - 1))
    IN  IF notation \in SpecialNotations
        THEN [ok |-> TRUE, count |-> 1,
              sides |-> ToInt(SubSeq(notation, 2, Len(notation))),
              modifier |-> 0]
        ELSE IF ~matched
        THEN [ok |-> FALSE, count |-> 0, sides |-> 0, modifier |-> 0]
        ELSE [ok |-> TRUE,
              count |-> IF c_end > 1 THEN ToInt(SubSeq(notation, 1, c_end - 1))
                                     ELSE 1,
              sides |-> ToInt(SubSeq(notation, c_end + 1, s_end - 1)),
              modifier |-> IF ~has_mod THEN 0
                           ELSE IF notation[s_end] = "-" THEN 0 - mod_abs
                           ELSE mod_abs]

MAX_DICE == 100      \* dice_service.py:81

\* roll_dice raises ValueError for these.
RollDiceRejects(count, sides) == count <= 0 \/ sides <= 0 \/ count > MAX_DICE

\* The faces random.randint(1, sides) is sampled at.
Faces(sides) == {x \in {3, 20} : x <= sides}

RECURSIVE SumSeq(_)
SumSeq(q) == IF q = << >> THEN 0 ELSE Head(q) + SumSeq(Tail(q))

\* The DiceResults roll_from_notation(notation) can return, called with the
\* default arguments (no advantage, no disadvantage, no extra modifiers);
\* {} when it raises.
roll_from_notation(notation) ==
    LET params == parse_dice_notation(notation)
    IN  IF ~params.ok \/ RollDiceRejects(params.count, params.sides) THEN {}
        ELSE { [individual_rolls |-> rolls,
                total |-> SumSeq(rolls) + params.modifier,
                is_critical |-> /\ params.sides = 20 /\ params.count = 1
                                /\ rolls[1] \in {1, 20}]
               : rolls \in [1..params.count -> Faces(params.sides)] }

(***************************************************************************)
(* Envelopes (WebSocketMessage.to_json).  sent records one entry per call  *)
(* of broadcast_to_game or websocket.send_text: the envelope, the client   *)
(* message that caused it (0: a connection event) and the websockets it    *)
(* was delivered to.                                                       *)
(***************************************************************************)
Envelope(type, cause, g) ==
    [type |-> type, cause |-> cause, game |-> g, to |-> {},
     player |-> "", message |-> "", skill |-> "", total |-> 0,
     modifier |-> 0, final_total |-> 0, dc |-> 0, success |-> FALSE,
     flag |-> FALSE]

(***************************************************************************)
(* ConnectionManager (api/websocket.py:26-108).  W is the record           *)
(* [ac, ug, redis, sent, ko] of the state a manager call reads and writes. *)
(***************************************************************************)
\* The slot of a deleted key in the entries of a dict.
Hole == ""

\* d[k] = v on the entries of a dict: a new key takes the next slot, a key
\* that is present keeps its slot.
SlotsSet(slots, k) == IF InList(k, slots) THEN slots ELSE Append(slots, k)
\* del d[k] on the entries of a dict.
SlotsPop(slots, k) == [i \in 1..Len(slots) |-> IF slots[i] = k THEN Hole ELSE slots[i]]

\* ConnectionManager.connect
manager_connect(W, h, g, u, t) ==
    LET bucket == DictGet(W.ac, g, EmptyDict)
    IN  [W EXCEPT !.ac = DictSet(W.ac, g, DictSet(bucket, u, h)),
                  !.ug = DictSet(W.ug, u, g),
                  !.ko = DictSet(W.ko, g, SlotsSet(DictGet(W.ko, g, << >>), u)),
                  !.redis = add_active_player(W.redis, g, u, t)]

\* A disconnect that forgets the participant and keeps the handle.
manager_disconnect_keep(W, u, t) ==
    IF u \notin DOMAIN W.ug THEN W ELSE [W EXCEPT !.ug = DictPop(W.ug, u)]

\* ConnectionManager.disconnect; the remove_active_player task it creates
\* is run at once.
manager_disconnect(W, u, t) ==
    IF u \notin DOMAIN W.ug THEN W
    ELSE LET g == W.ug[u]
             bucket == DictPop(W.ac[g], u)
             ac1 == IF g \notin DOMAIN W.ac THEN W.ac
                    ELSE IF DOMAIN bucket = {} THEN DictPop(W.ac, g)
                    ELSE DictSet(W.ac, g, bucket)
             ko1 == IF g \notin DOMAIN W.ac THEN W.ko
                    ELSE IF DOMAIN bucket = {} THEN DictPop(W.ko, g)
                    ELSE DictSet(W.ko, g, SlotsPop(W.ko[g], u))
         IN  [W EXCEPT !.ac = ac1,
                       !.ug = DictPop(W.ug, u),
                       !.ko = ko1,
                       !.redis = remove_active_player(W.redis, g, u, t)]

RECURSIVE DisconnectAll(_, _, _)
DisconnectAll(W, users, t) ==
    IF users = {} THEN W
    ELSE LET u == CHOOSE x \in users : TRUE
         IN  DisconnectAll(manager_disconnect(W, u, t), users \ {u}, t)

\* websocket.send_text raises on a websocket whose client is gone.
SendFails(wsf, h) == wsf[h].state # "open"

\* websocket.send_text(message) on h, outside the manager.
send_text(W, wsf, message, h) ==
    [W EXCEPT !.sent = W.sent \cup
        {[message EXCEPT !.to = IF SendFails(wsf, h) THEN {} ELSE {h}]}]

\* ConnectionManager.broadcast_to_game
broadcast_to_game(W, wsf, message, g, exclude_user, t) ==
    IF g \notin DOMAIN W.ac
    THEN [W EXCEPT !.sent = W.sent \cup {message}]
    ELSE LET bucket == W.ac[g]
             targets == {u \in DOMAIN bucket :
                            ~(exclude_user # None /\ Some(u) = exclude_user)}
             disconnected_users == {u \in targets : SendFails(wsf, bucket[u])}
             delivered == {bucket[u] : u \in targets \ disconnected_users}
             W1 == [W EXCEPT !.sent =
                       W.sent \cup {[message EXCEPT !.to = delivered]}]
         IN  DisconnectAll(W1, disconnected_users, t)

\* ConnectionManager.get_game_players
get_game_players(W, g) == IF g \in DOMAIN W.ac THEN DOMAIN W.ac[g] ELSE {}

(***************************************************************************)
(* AIService (services/ai_service.py): the oracle.  Russian words of the   *)
(* source are written in Latin transliteration.  An action text is the     *)
(* tuple of its characters.                                                *)
(***************************************************************************)
\* The keyword list of the fallback analysis (ai_service.py:225-228).
Keywords ==
    {<<"a", "t", "a", "k">>,
     <<"u", "d", "a", "r">>,
     <<"s", "t", "r", "e", "l">>,
     <<"z", "a", "k", "l", "i", "n">>,
     <<"s", "k", "r", "y", "t">>,
     <<"k", "r", "a">>,
     <<"u", "b", "e", "z", "h", "d">>,
     <<"o", "b", "m", "a", "n">>,
     <<"z", "a", "p", "u", "g", "a", "y">>,
     <<"l", "a", "z", "a", "n">>,
     <<"p", "r", "y", "z", "h">>,
     <<"p", "l", "a", "v", "a">>,
     <<"l", "o", "m">>,
     <<"v", "z", "l", "o", "m">>,
     <<"i", "s", "c", "h">>,
     <<"v", "o", "s", "p", "r", "i", "y", "a", "t">>}

LowerLetter(c) == IF c = "A" THEN "a" ELSE c
LowerText(s) == [i \in 1..Len(s) |-> LowerLetter(s[i])]

\* keyword in action_lower
Contains(s, kw) ==
    \E i \in 1..(Len(s) - Len(kw) + 1) : SubSeq(s, i, i + Len(kw) - 1) = kw

\* any(keyword in action.lower() for keyword in [...])
needs_roll(action) == \E kw \in Keywords : Contains(LowerText(action), kw)

\* What the POST to the model can come back with, as analyze_player_action
\* sees it: no usable response (HTTP error, timeout, text without JSON), a
\* JSON object, or a JSON object whose fields make the conversion raise.
NoReply == [kind |-> "none", need |-> FALSE, roll_type |-> "", skill |-> "",
            dc |-> << >>, adv |-> ""]
AnalysisReplies ==
    {NoReply,
     [NoReply EXCEPT !.kind = "raise"],
     [NoReply EXCEPT !.kind = "json"],
     [kind |-> "json", need |-> TRUE, roll_type |-> "proverka_navyka",
      skill |-> "skrytnost", dc |-> <<"1", "5">>, adv |-> "preimushchestvo"],
     [kind |-> "json", need |-> TRUE, roll_type |-> "proverka_navyka",
      skill |-> "skrytnost", dc |-> << >>, adv |-> "obychno"]}

NoRollAnalysis ==
    [requires_roll |-> FALSE, roll_type |-> "", ability_or_skill |-> "",
     suggested_dc |-> << >>, advantage_disadvantage |-> ""]

\* AIService.analyze_player_action
analyze_player_action(action, reply) ==
    CASE reply.kind = "json" ->
           [requires_roll |-> reply.need, roll_type |-> reply.roll_type,
            ability_or_skill |-> reply.skill, suggested_dc |-> reply.dc,
            advantage_disadvantage |-> reply.adv]
      [] reply.kind = "raise" -> NoRollAnalysis
      [] OTHER ->
           [requires_roll |-> needs_roll(action),
            roll_type |-> IF needs_roll(action) THEN "proverka_navyka" ELSE "",
            ability_or_skill |-> "",
            suggested_dc |-> IF needs_roll(action) THEN <<"1", "5">> ELSE << >>,
            advantage_disadvantage |-> "obychno"]

\* int(x) raises ValueError unless x is a non-empty run of digits.
IsIntText(x) == x # << >> /\ \A i \in 1..Len(x) : x[i] \in Digits

\* get_skill_modifier (api/websocket.py:573-608)
get_skill_modifier(skill) ==
    CASE skill = "sila" -> 2
      [] skill = "lovkost" -> 3
      [] skill = "teloslozhenie" -> 1
      [] skill = "intellekt" -> 1
      [] skill = "mudrost" -> 2
      [] skill = "kharizma" -> 0
      [] skill = "atletika" -> 4
      [] skill = "akrobatika" -> 3
      [] skill = "lovkost_ruk" -> 3
      [] skill = "skrytnost" -> 5
      [] skill = "magiya" -> 3
      [] skill = "istoriya" -> 1
      [] skill = "rassledovanie" -> 3
      [] skill = "priroda" -> 1
      [] skill = "religiya" -> 1
      [] skill = "obrashchenie_s_zhivotnymi" -> 2
      [] skill = "pronitsatelnost" -> 4
      [] skill = "meditsina" -> 2
      [] skill = "vospriyatie" -> 4
      [] skill = "vyzhivanie" -> 2
      [] skill = "obman" -> 0
      [] skill = "zapugivanie" -> 0
      [] skill = "vystuplenie" -> 0
      [] skill = "ubezhdenie" -> 2
      [] OTHER -> 0

\* The check_data dict of request_dice_roll with the timestamp that
\* store_pending_roll_check adds.
CheckData(dice_analysis, original_action, t) ==
    [roll_type |-> dice_analysis.roll_type,
     ability_or_skill |-> dice_analysis.ability_or_skill,
     dc |-> ToInt(dice_analysis.suggested_dc),
     advantage |-> dice_analysis.advantage_disadvantage = "preimushchestvo",
     disadvantage |-> dice_analysis.advantage_disadvantage = "pomekha",
     original_action |-> original_action,
     modifier |-> get_skill_modifier(dice_analysis.ability_or_skill),
     timestamp |-> t]

\* send_fallback_ai_response
send_fallback_ai_response(W, wsf, g, cause, t) ==
    broadcast_to_game(W, wsf,
        [Envelope("ai_response", cause, g) EXCEPT !.flag = TRUE], g, None, t)

\* process_dice_check_result: the narration is the oracle's text or, when
\* the oracle gives none, the text built from the numbers; the envelope is
\* broadcast in both cases.
process_dice_check_result(W, wsf, g, player_name, roll_result, pending_check, cause, t) ==
    LET dc == pending_check.dc
        modifier == pending_check.modifier
        base_roll == roll_result.total
        final_total == base_roll + modifier
        success == final_total >= dc
    IN  broadcast_to_game(W, wsf,
            [Envelope("dice_check_result", cause, g) EXCEPT
                !.player = player_name, !.total = base_roll,
                !.modifier = modifier, !.final_total = final_total,
                !.dc = dc, !.success = success],
            g, None, t)

(***************************************************************************)
(* Inputs of the model.                                                    *)
(***************************************************************************)
\* data["action"] of a player_action: "Ataka", "idu" and " ".
ActionTexts == {<<"A", "t", "a", "k", "a">>, <<"i", "d", "u">>, <<" ">>}

\* data["notation"] of a dice_roll: "1d20", "1d20+5", "abc" and " ".
N_1d20 == <<"1", "d", "2", "0">>
Notations == {N_1d20, <<"1", "d", "2", "0", "+", "5">>, <<"a", "b", "c">>, <<" ">>}

\* What select(Game) gives handle_player_action: the row, or an exception.
DbOutcomes == {"found", "raises"}

(***************************************************************************)
(* Game (models/game.py).  A Game is the record of the columns the methods *)
(* read and write; players and characters are lists, player_characters a   *)
(* dict, turn_info the dict of line 40.  A method returns the object after *)
(* the call in field game, what it returned in ok, and in field set the    *)
(* attributes it assigned: the columns are plain JSONB (lines 34-46), so   *)
(* the unit of work sees an attribute as changed only when it is assigned, *)
(* not when the list or dict it holds is changed in place.                 *)
(***************************************************************************)
DEFAULT_MAX_PLAYERS == 6         \* api/games.py:27
MaxPlayersChoices == {1, 2}      \* max_players of the games made here
Characters == {"c1", "c2"}
Outsider == "u3"                 \* a user who is not in the campaign
CampaignPlayers == Users         \* campaign.players
GameStatus == {"waiting", "active", "paused", "ended"}

NewTurnInfo ==
    [current_turn |-> 0, initiative_order |-> << >>, round_number |-> 1,
     current_player_index |-> 0, current_player_id |-> None]

\* create_game (api/games.py:117-126)
create_game(max_players) ==
    [status |-> "waiting", max_players |-> max_players, current_players |-> 0,
     players |-> << >>, characters |-> << >>, player_characters |-> EmptyDict,
     turn_info |-> NewTurnInfo]

\* list.remove(x): the first x leaves the list.
RECURSIVE ListRemoveFirst(_, _)
ListRemoveFirst(list, x) ==
    IF list = << >> THEN << >>
    ELSE IF Head(list) = x THEN Tail(list)
    ELSE <<Head(list)>> \o ListRemoveFirst(Tail(list), x)

\* [entry for entry in initiative_order if entry.get("player_id") != user_id]
RECURSIVE WithoutPlayer(_, _)
WithoutPlayer(order, user_id) ==
    IF order = << >> THEN << >>
    ELSE IF Head(order).player_id = user_id THEN WithoutPlayer(Tail(order), user_id)
    ELSE <<Head(order)>> \o WithoutPlayer(Tail(order), user_id)

\* Game.can_join
can_join(g) ==
    /\ g.status \in {"waiting", "active"}
    /\ ~(g.current_players >= g.max_players)

\* An add_player that appends the id before it looks for it in the roster.
add_player_half_done(g, user_id, character_id) ==
    IF g.current_players >= g.max_players
    THEN [game |-> g, ok |-> FALSE, why |-> "Full", set |-> {}]
    ELSE IF InList(user_id, g.players)
    THEN [game |-> [g EXCEPT !.players = Append(@, user_id)],
          ok |-> FALSE, why |-> "AlreadyJoined", set |-> {}]
    ELSE [game |-> [g EXCEPT !.players = Append(@, user_id),
                             !.current_players = Len(g.players) + 1],
          ok |-> TRUE, why |-> "", set |-> {"current_players"}]

\* An add_player that does not touch the counter.
add_player_no_count(g, user_id, character_id) ==
    IF g.current_players >= g.max_players \/ InList(user_id, g.players)
    THEN [game |-> g, ok |-> FALSE, why |-> "Full", set |-> {}]
    ELSE [game |-> [g EXCEPT !.players = Append(@, user_id)],
          ok |-> TRUE, why |-> "", set |-> {}]

\* Game.add_player.  why names the return statement taken: line 184 is the
\* limit of players ("Full"), line 188 the player who is in the game
\* ("AlreadyJoined").
add_player(g, user_id, character_id) ==
    IF g.current_players >= g.max_players
    THEN [game |-> g, ok |-> FALSE, why |-> "Full", set |-> {}]
    ELSE IF InList(user_id, g.players)
    THEN [game |-> g, ok |-> FALSE, why |-> "AlreadyJoined", set |-> {}]
    ELSE LET players == Append(g.players, user_id)
             given == character_id # None
             ch == character_id[1]
             characters == IF given /\ ~InList(ch, g.characters)
                           THEN Append(g.characters, ch) ELSE g.characters
             player_characters == IF given THEN DictSet(g.player_characters, user_id, ch)
                                  ELSE g.player_characters
         IN  [game |-> [g EXCEPT !.players = players,
                                 !.characters = characters,
                                 !.player_characters = player_characters,
                                 !.current_players = Len(players)],
              ok |-> TRUE, why |-> "",
              \* Lines 191-192, 198-199, 204-205: an empty list or dict is
              \* replaced by a new one before it is filled.
              set |-> {"current_players"}
                      \cup (IF g.players = << >> THEN {"players"} ELSE {})
                      \cup (IF given /\ g.characters = << >>
                            THEN {"characters"} ELSE {})
                      \cup (IF given /\ g.player_characters = EmptyDict
                            THEN {"player_characters"} ELSE {})]

\* A remove_player that leaves the initiative order alone.
remove_player_keep_order(g, user_id) ==
    IF ~InList(user_id, g.players) THEN [game |-> g, ok |-> FALSE, set |-> {}]
    ELSE [game |-> [g EXCEPT !.players = ListRemoveFirst(@, user_id),
                             !.player_characters = DictPop(@, user_id),
                             !.current_players = Len(g.players) - 1],
          ok |-> TRUE, set |-> {"current_players"}]

\* Game.remove_player
remove_player(g, user_id) ==
    IF g.players = << >> \/ ~InList(user_id, g.players)
    THEN [game |-> g, ok |-> FALSE, set |-> {}]
    ELSE LET players == ListRemoveFirst(g.players, user_id)
             assigned == user_id \in DOMAIN g.player_characters
             character_id == g.player_characters[user_id]
             player_characters == DictPop(g.player_characters, user_id)
             characters ==
                 IF /\ assigned
                    /\ InList(character_id, g.characters)
                    /\ \A u \in DOMAIN player_characters :
                           player_characters[u] # character_id
                 THEN ListRemoveFirst(g.characters, character_id)
                 ELSE g.characters
         IN  [game |-> [g EXCEPT
                  !.players = players,
                  !.player_characters = player_characters,
                  !.characters = characters,
                  !.current_players = Len(players),
                  !.turn_info.initiative_order = WithoutPlayer(@, user_id)],
              ok |-> TRUE, set |-> {"current_players"}]

\* Game.set_current_player
set_current_player(g, player_id) ==
    [game |-> [g EXCEPT !.turn_info.current_player_id = Some(player_id)],
     ok |-> TRUE, set |-> {}]

\* A next_turn that never starts a new round.
next_turn_same_round(g) ==
    LET t == g.turn_info
        n == Len(t.initiative_order)
        next_index == (t.current_player_index + 1) % n
    IN  [game |-> IF n = 0 THEN g
                  ELSE [g EXCEPT
                          !.turn_info.current_turn = @ + 1,
                          !.turn_info.current_player_index = next_index,
                          !.turn_info.current_player_id =
                              Some(t.initiative_order[next_index + 1].player_id)],
         ok |-> TRUE, set |-> {}]

\* Game.next_turn
next_turn(g) ==
    LET t == g.turn_info
        initiative_order == t.initiative_order
        current_index == t.current_player_index
        next_index == (current_index + 1) % Len(initiative_order)
        t1 == [t EXCEPT !.current_turn = @ + 1]
        t2 == IF initiative_order = << >> THEN t1
              ELSE [t1 EXCEPT
                      !.round_number = IF next_index = 0 THEN @ + 1 ELSE @,
                      !.current_player_index = next_index,
                      !.current_player_id =
                          Some(initiative_order[next_index + 1].player_id)]
    IN  [game |-> [g EXCEPT !.turn_info = t2], ok |-> TRUE, set |-> {}]

\* db.commit() of the unit of work that loaded row and holds obj: the
\* UPDATE carries the attributes that were assigned.
Flush(row, obj, assigned) ==
    [a \in DOMAIN row |-> IF a \in assigned THEN obj[a] ELSE row[a]]

(***************************************************************************)
(* State.                                                                  *)
(***************************************************************************)
\* after: the websockets whose endpoint had returned when this one was
\* accepted (history).
FreeWs == [state |-> "free", game |-> "", user |-> "", after |-> {}]

NoTaskData ==
    [pc |-> "done", game |-> "", user |-> "", player_name |-> "",
     action |-> << >>, health |-> FALSE, reply |-> NoReply,
     analysis |-> NoRollAnalysis, called_store |-> FALSE, stored |-> None]

World == [ac |-> active_connections, ug |-> user_games, redis |-> redis,
          sent |-> sent, ko |-> key_order]

Commit(W) ==
    /\ active_connections' = W.ac
    /\ user_games' = W.ug
    /\ redis' = W.redis
    /\ sent' = W.sent
    /\ key_order' = W.ko

InitManager ==
    /\ active_connections = EmptyDict
    /\ user_games = EmptyDict
    /\ ws = [h \in Handles |-> FreeWs]
    /\ redis = EmptyDict
    /\ now = 0
    /\ ticks = 0
    /\ tasks = EmptyDict
    /\ sent = {}
    /\ msgs = << >>
    /\ puts = EmptyDict
    /\ key_order = EmptyDict
    /\ bcast = None
    /\ requests = EmptyDict
    /\ roll = None

Init ==
    /\ InitManager
    /\ game = create_game(DEFAULT_MAX_PLAYERS)
    /\ game_obj = game
    /\ last_call = None

\* The handler of an earlier message of websocket h has not returned: it
\* is inside a broadcast.
Iterating == bcast # None /\ bcast[1].pc = "iter"
Busy(h) == Iterating /\ bcast[1].handle = h

(***************************************************************************)
(* websocket_game_endpoint (api/websocket.py:140-258) for a user whose     *)
(* token is valid and who may enter the game.                              *)
(***************************************************************************)
\* Lines 197-226: register the websocket, greet it, tell the others.
WsConnect(u, g) ==
    /\ \E h \in Handles : ws[h].state = "free"
    /\ LET h == CHOOSE x \in Handles :
                    ws[x].state = "free"
                    /\ \A y \in Handles : ws[y].state = "free" => x <= y
           ws1 == [ws EXCEPT ![h] =
                      [state |-> "open", game |-> g, user |-> u,
                       after |-> {x \in Handles : ws[x].state = "done"}]]
           W1 == manager_connect(World, h, g, u, now)
           W2 == send_text(W1, ws1,
                     [Envelope("connected", 0, g) EXCEPT !.player = username(u)],
                     h)
           W3 == broadcast_to_game(W2, ws1,
                     [Envelope("player_joined", 0, g) EXCEPT
                         !.player = username(u)],
                     g, Some(u), now)
           \* Lines 217-226: the stored history, when there is one.
           W4 == IF get_game_messages(W3.redis, g, HISTORY_SENT, now) # << >>
                 THEN send_text(W3, ws1, Envelope("message_history", 0, g), h)
                 ELSE W3
       IN  /\ ws' = ws1
           /\ Commit(W4)
    /\ UNCHANGED <<now, ticks, tasks, msgs, puts>>

\* The client side of websocket h goes away.
ClientClose(h) ==
    /\ ws[h].state = "open"
    /\ ws' = [ws EXCEPT ![h].state = "gone"]
    /\ UNCHANGED <<active_connections, user_games, key_order, redis, now, ticks, tasks,
                   sent, msgs, puts>>

\* Lines 244-253: receive_text raises WebSocketDisconnect.
WsDisconnect(h) ==
    /\ ws[h].state = "gone"
    /\ ~Busy(h)
    /\ LET ws1 == [ws EXCEPT ![h].state = "done"]
           W1 == manager_disconnect(World, ws[h].user, now)
           W2 == broadcast_to_game(W1, ws1,
                     [Envelope("player_left", 0, ws[h].game) EXCEPT
                         !.player = username(ws[h].user)],
                     ws[h].game, None, now)
       IN  /\ ws' = ws1
           /\ Commit(W2)
    /\ UNCHANGED <<now, ticks, tasks, msgs, puts>>

\* Wall-clock time passes; Redis drops the keys whose TTL has run out.
Tick ==
    /\ ticks < MaxTicks
    /\ ticks' = ticks + 1
    /\ now' = now + TickSeconds
    /\ redis' = RedisExpire(redis, now + TickSeconds)
    /\ puts' = [k \in {x \in DOMAIN puts :
                          now + TickSeconds < puts[x].at + PENDING_ROLL_TTL}
                  |-> puts[k]]
    /\ UNCHANGED <<active_connections, user_games, key_order, ws, tasks, sent, msgs>>

(***************************************************************************)
(* The receive loop (api/websocket.py:228-242): one client message is      *)
(* received on an open websocket and handled by handle_websocket_message.  *)
(* msgs keeps, per message, what was received and, for the history, what   *)
(* the pending-roll key held when the message was handled.                 *)
(***************************************************************************)
PutKey(g, player_name) == <<g, player_name>>

Received(kind, h, body) ==
    [kind |-> kind, handle |-> h, game |-> ws[h].game, user |-> ws[h].user,
     body |-> body, db |-> "", present |-> FALSE, check |-> None,
     roll |-> None]

\* A receive loop that does not wait for the handler of the last message.
CanReceive_parallel(h) == ws[h].state = "open" /\ Len(msgs) < MaxMsgs

\* The receive loop of websocket h (api/websocket.py:229-238) is at its
\* receive_text: the handler of the message before has returned.
CanReceive(h) == ws[h].state = "open" /\ Len(msgs) < MaxMsgs /\ ~Busy(h)

\* handle_player_action (api/websocket.py:348-391)
handle_player_action(h, text, db) ==
    /\ CanReceive(h)
    /\ LET g == ws[h].game
           u == ws[h].user
           id == Len(msgs) + 1
           action == Strip(text)
           W1 == broadcast_to_game(World, ws,
                     [Envelope("player_action", id, g) EXCEPT
                         !.player = username(u)],
                     g, None, now)
       IN  IF action = << >>
           THEN /\ msgs' = Append(msgs, Received("player_action", h, text))
                /\ UNCHANGED <<active_connections, user_games, key_order, redis, sent,
                               tasks>>
           ELSE /\ msgs' = Append(msgs,
                       [Received("player_action", h, text) EXCEPT !.db = db])
                /\ Commit(W1)
                /\ tasks' = IF db = "found"
                            THEN DictSet(tasks, id,
                                   [NoTaskData EXCEPT
                                       !.pc = "health", !.game = g, !.user = u,
                                       !.player_name = username(u),
                                       !.action = action])
                            ELSE tasks
    /\ UNCHANGED <<ws, now, ticks, puts>>

\* handle_dice_roll, the definition in force (api/websocket.py:895-964; it
\* replaces the one at 646-698).
handle_dice_roll(h, raw) ==
    /\ CanReceive(h)
    /\ LET g == ws[h].game
           u == ws[h].user
           id == Len(msgs) + 1
           notation == Strip(raw)
           pending_check == get_pending_roll_check(redis, g, username(u), now)
           rolled == roll_from_notation(
                         IF pending_check # None /\ notation = N_1d20
                         THEN N_1d20 ELSE notation)
           m0 == [Received("dice_roll", h, raw) EXCEPT
                     !.present = RedisLive(redis,
                                     PendingRollKey(g, username(u)), now),
                     !.check = IF PutKey(g, username(u)) \in DOMAIN puts
                               THEN Some(puts[PutKey(g, username(u))])
                               ELSE None]
       IN  IF notation = << >>
           THEN /\ msgs' = Append(msgs, m0)
                /\ UNCHANGED <<active_connections, user_games, key_order, redis, sent,
                               puts>>
           ELSE IF rolled = {}
           THEN /\ msgs' = Append(msgs, m0)
                /\ Commit(send_text(World, ws, Envelope("error", id, g), h))
                /\ UNCHANGED puts
           ELSE \E dice_result \in rolled :
                LET W1 == broadcast_to_game(World, ws,
                              [Envelope("dice_roll", id, g) EXCEPT
                                  !.player = username(u),
                                  !.total = dice_result.total,
                                  !.flag = (pending_check # None)],
                              g, None, now)
                    W2 == process_dice_check_result(W1, ws, g, username(u),
                              dice_result, pending_check[1], id, now)
                    W3 == [W2 EXCEPT !.redis =
                              clear_pending_roll_check(W2.redis, g,
                                  username(u), now).redis]
                IN  /\ msgs' = Append(msgs, [m0 EXCEPT !.roll = Some(dice_result)])
                    /\ IF pending_check # None
                       THEN /\ Commit(W3)
                            /\ puts' = DictPop(puts, PutKey(g, username(u)))
                       ELSE /\ Commit(W1)
                            /\ UNCHANGED puts
    /\ UNCHANGED <<ws, now, ticks, tasks>>

\* handle_websocket_message, type "leave_game" (api/websocket.py:289-290)
handle_leave_game(h) ==
    /\ CanReceive(h)
    /\ msgs' = Append(msgs, Received("leave_game", h, << >>))
    /\ Commit(manager_disconnect(World, ws[h].user, now))
    /\ UNCHANGED <<ws, now, ticks, tasks, puts>>

(***************************************************************************)
(* handle_ai_response_with_dice_check (api/websocket.py:394-451), the task *)
(* handle_player_action creates, cut at its awaits of the oracle and of    *)
(* the broadcast.                                                          *)
(***************************************************************************)
SetTask(i, task) == tasks' = [tasks EXCEPT ![i] = task]

\* Lines 399-404: health check of the oracle.
TaskHealth(i) ==
    /\ tasks[i].pc = "health"
    /\ \E ai_health \in BOOLEAN :
         IF ai_health
         THEN /\ SetTask(i, [tasks[i] EXCEPT !.pc = "analyze", !.health = TRUE])
              /\ UNCHANGED <<active_connections, user_games, key_order, redis, sent>>
         ELSE /\ SetTask(i, [tasks[i] EXCEPT !.pc = "done"])
              /\ Commit(send_fallback_ai_response(World, ws, tasks[i].game, i,
                                                  now))
    /\ UNCHANGED <<ws, now, ticks, msgs, puts>>

\* Lines 412-423 and request_dice_roll up to its broadcast (454-562).
TaskAnalyze(i) ==
    /\ tasks[i].pc = "analyze"
    /\ \E reply \in AnalysisReplies :
         LET dice_analysis == analyze_player_action(tasks[i].action, reply)
             t1 == [tasks[i] EXCEPT !.reply = reply, !.analysis = dice_analysis]
         IN  IF ~dice_analysis.requires_roll
             THEN /\ SetTask(i, [t1 EXCEPT !.pc = "narrate"])
                  /\ UNCHANGED <<active_connections, user_games, key_order, redis, sent>>
             ELSE IF ~IsIntText(dice_analysis.suggested_dc)
             THEN /\ SetTask(i, [t1 EXCEPT !.pc = "done"])
                  /\ Commit(send_fallback_ai_response(World, ws, tasks[i].game,
                                                      i, now))
             ELSE /\ SetTask(i, [t1 EXCEPT !.pc = "store"])
                  /\ Commit(broadcast_to_game(World, ws,
                         [Envelope("roll_request", i, tasks[i].game) EXCEPT
                             !.player = tasks[i].player_name,
                             !.skill = dice_analysis.ability_or_skill,
                             !.modifier = get_skill_modifier(
                                              dice_analysis.ability_or_skill),
                             !.flag = (dice_analysis.advantage_disadvantage
                                          = "preimushchestvo")],
                         tasks[i].game, None, now))
    /\ UNCHANGED <<ws, now, ticks, msgs, puts>>

\* request_dice_roll, lines 564-567: the check is handed to the store.
TaskStore(i) ==
    /\ tasks[i].pc = "store"
    /\ LET g == tasks[i].game
           name == tasks[i].player_name
           data == CheckData(tasks[i].analysis, tasks[i].action, now)
           res == store_pending_roll_check(redis, g, name, data, now)
           before == DictGet(puts, PutKey(g, name), [n |-> 0])
       IN  /\ redis' = res.redis
           /\ SetTask(i, [tasks[i] EXCEPT
                  !.pc = "done", !.called_store = TRUE,
                  !.stored = RedisClient_get(res.redis,
                                 PendingRollKey(g, name), now)])
           /\ puts' = DictSet(puts, PutKey(g, name),
                         [data |-> data, at |-> now, n |-> before.n + 1,
                          ok |-> res.ok, cause |-> i])
    /\ UNCHANGED <<active_connections, user_games, key_order, ws, now, ticks, sent, msgs>>

\* Lines 425-447: generate_dm_response and the broadcast of its text, or of
\* the stock sentence when the oracle gives none.
TaskNarrate(i) ==
    /\ tasks[i].pc = "narrate"
    /\ \E ai_response \in {"oracle", "default"} :
         LET W1 == [World EXCEPT !.redis =
                       cache_ai_context(redis, tasks[i].game, "context",
                                        now).redis]
         IN  Commit(broadcast_to_game(W1, ws,
                 [Envelope("ai_response", i, tasks[i].game) EXCEPT
                     !.message = ai_response],
                 tasks[i].game, None, now))
    /\ SetTask(i, [tasks[i] EXCEPT !.pc = "done"])
    /\ UNCHANGED <<ws, now, ticks, msgs, puts>>

\* One participant (u1, "Lyra") of game g1 opens up to MaxHandles websockets
\* and sends up to MaxMsgs messages over them.
\* Websockets accepted so far.
Opened == Cardinality({h \in Handles : ws[h].state # "free"})

\* No broadcast is cut at its awaits in Spec, and no request is made for the
\* row of the game.
Idle == UNCHANGED <<bcast, game, game_obj, last_call, requests, roll>>

Next ==
    \/ Opened < MaxHandles /\ WsConnect("u1", "g1") /\ Idle
    \/ \E h \in Handles : ClientClose(h) /\ Idle
    \/ \E h \in Handles : WsDisconnect(h) /\ Idle
    \/ \E h \in Handles, text \in ActionTexts, db \in DbOutcomes :
           handle_player_action(h, text, db) /\ Idle
    \/ \E h \in Handles, raw \in Notations : handle_dice_roll(h, raw) /\ Idle
    \/ \E h \in Handles : handle_leave_game(h) /\ Idle
    \/ \E i \in DOMAIN tasks : TaskHealth(i) /\ Idle
    \/ \E i \in DOMAIN tasks : TaskAnalyze(i) /\ Idle
    \/ \E i \in DOMAIN tasks : TaskStore(i) /\ Idle
    \/ \E i \in DOMAIN tasks : TaskNarrate(i) /\ Idle
    \/ Tick /\ Idle

Spec == Init /\ [][Next]_vars

(***************************************************************************)
(* handle_chat_message (api/websocket.py:317-345) and the broadcast it     *)
(* ends with, cut at the awaits of ConnectionManager.broadcast_to_game     *)
(* (api/websocket.py:86-102): between two sends of the loop other          *)
(* coroutines run.  bcast is the frame of the broadcast: the dict iterator *)
(* (used, pos, stale), disconnected_users, and what was delivered.  The    *)
(* iterator of a dict raises RuntimeError when the size of the dict is not *)
(* the size it started with; a bucket that was deleted from                *)
(* active_connections keeps the size 0 it was deleted with.                *)
(***************************************************************************)
ChatTexts == {<<"h", "i">>, <<" ">>}

ChatEnvelope(b) == [Envelope("chat_message", b.id, b.game) EXCEPT !.to = b.delivered]

\* The entries the iterator has not passed.
SlotsLeft(b) ==
    {i \in (b.pos + 1)..Len(key_order[b.game]) : key_order[b.game][i] # Hole}

\* next() of the iterator and the send to the websocket it yields
\* (lines 91-98); the coroutine is suspended in the send.
SendStep(b) ==
    LET i == CHOOSE x \in SlotsLeft(b) : \A y \in SlotsLeft(b) : x <= y
        user_id == key_order[b.game][i]
        websocket == active_connections[b.game][user_id]
    IN  IF SendFails(ws, websocket)
        THEN [b EXCEPT !.pos = i,
                       !.disconnected_users = Append(@, user_id),
                       !.failed = @ \cup {<<user_id, websocket>>}]
        ELSE [b EXCEPT !.pos = i, !.delivered = @ \cup {websocket}]

\* Lines 319-345, up to the first send of the loop of the broadcast.
handle_chat_message(h, content) ==
    /\ CanReceive(h)
    /\ ~Iterating
    /\ msgs' = Append(msgs, Received("chat_message", h, content))
    /\ LET g == ws[h].game
           u == ws[h].user
           id == Len(msgs) + 1
           b0 == [id |-> id, handle |-> h, game |-> g, used |-> 0, pos |-> 0,
                  stale |-> FALSE, disconnected_users |-> << >>,
                  delivered |-> {}, failed |-> {}, start |-> EmptyDict,
                  before |-> EmptyDict, after |-> EmptyDict, pc |-> "done"]
       IN  IF Strip(content) = << >>
           THEN UNCHANGED <<redis, sent, bcast>>
           ELSE /\ redis' = add_game_message(redis, g,
                                [type |-> "chat", sender_id |-> u, id |-> id],
                                now)
                /\ IF g \notin DOMAIN active_connections
                   THEN /\ sent' = sent \cup {ChatEnvelope(b0)}
                        /\ bcast' = Some(b0)
                   ELSE /\ sent' = sent
                        /\ bcast' = Some(SendStep([b0 EXCEPT
                               !.used = Cardinality(DOMAIN active_connections[g]),
                               !.start = active_connections[g],
                               !.pc = "iter"]))
    /\ UNCHANGED <<active_connections, user_games, key_order, ws, now, ticks, tasks, puts>>
    /\ UNCHANGED <<game, game_obj, last_call, requests, roll>>

\* for user_id in disconnected_users: self.disconnect(user_id)
RECURSIVE DisconnectEach(_, _, _)
DisconnectEach(W, users, t) ==
    IF users = << >> THEN W
    ELSE DisconnectEach(manager_disconnect(W, Head(users), t), Tail(users), t)

\* The send the broadcast was suspended in returns: next() of the iterator,
\* then the next send, or the end of the loop and the removal of
\* disconnected_users.
BroadcastNext ==
    /\ Iterating
    /\ LET b == bcast[1]
           g == b.game
           size == IF g \in DOMAIN active_connections
                   THEN Cardinality(DOMAIN active_connections[g]) ELSE 0
       IN  IF b.stale \/ size # b.used
           THEN \* RuntimeError: dictionary changed size during iteration.
                \* handle_websocket_message catches it (lines 311-314) and
                \* answers the sender with an error.
                /\ bcast' = Some([b EXCEPT !.pc = "raised",
                                               !.before = active_connections,
                                               !.after = active_connections])
                /\ Commit(send_text([World EXCEPT !.sent = @ \cup {ChatEnvelope(b)}],
                                    ws, Envelope("error", b.id, g), b.handle))
           ELSE IF SlotsLeft(b) = {}
           THEN LET W1 == DisconnectEach(World, b.disconnected_users, now)
                IN  /\ bcast' = Some([b EXCEPT !.pc = "done",
                                               !.before = active_connections,
                                               !.after = W1.ac])
                    /\ Commit([W1 EXCEPT !.sent = @ \cup {ChatEnvelope(b)}])
           ELSE /\ bcast' = Some(SendStep(b))
                /\ UNCHANGED <<active_connections, user_games, key_order, redis, sent>>
    /\ UNCHANGED <<ws, now, ticks, tasks, msgs, puts, game, game_obj, last_call, requests, roll>>

\* What a coroutine that runs between two sends of the broadcast does to
\* its iterator: a bucket deleted from active_connections is not the dict
\* the iterator holds, whatever is registered for the game afterwards.
TrackBcast ==
    /\ UNCHANGED <<game, game_obj, last_call, requests, roll>>
    /\ bcast' = IF Iterating /\ bcast[1].game \notin DOMAIN active_connections'
             THEN Some([bcast[1] EXCEPT !.stale = TRUE])
             ELSE bcast

\* The registry: MaxSockets websockets of two participants, u1 who plays in
\* two games and u2 who plays in g1, their chat, and no oracle.
Seats == {<<"u1", "g1">>, <<"u1", "g2">>, <<"u2", "g1">>}

NextRegistry ==
    \/ \E seat \in Seats : WsConnect(seat[1], seat[2]) /\ TrackBcast
    \/ \E h \in Handles : ClientClose(h) /\ TrackBcast
    \/ \E h \in Handles : WsDisconnect(h) /\ TrackBcast
    \/ \E h \in Handles : handle_leave_game(h) /\ TrackBcast
    \/ \E h \in Handles, content \in ChatTexts : handle_chat_message(h, content)
    \/ BroadcastNext
SpecRegistry == Init /\ [][NextRegistry]_vars

(***************************************************************************)
(* The methods of Game, called on a Game object in memory.  The object is  *)
(* any Game the columns and the methods allow: a roster without            *)
(* duplicates, the counter at the length of the roster, characters only of *)
(* players, initiative entries only of players.                            *)
(***************************************************************************)
MaxCalls == 2        \* method calls on the object in one behaviour

ManagerVars == <<active_connections, user_games, ws, redis, now, ticks, tasks, sent, msgs, puts, key_order, bcast>>

Rosters == {<<>>} \cup {<<u>> : u \in Users} \cup {<<u, v>> : u, v \in Users}

NoDuplicates(list) == \A i, j \in DOMAIN list : list[i] = list[j] => i = j

Members(list) == {list[i] : i \in DOMAIN list}

\* The characters of the players, in the order the players took them.
RECURSIVE CharactersOf(_, _)
CharactersOf(players, player_characters) ==
    IF players = << >> THEN << >>
    ELSE LET rest == CharactersOf(SubSeq(players, 1, Len(players) - 1),
                                  player_characters)
             u == players[Len(players)]
         IN  IF u \in DOMAIN player_characters
                /\ ~InList(player_characters[u], rest)
             THEN Append(rest, player_characters[u]) ELSE rest

Assignments == UNION {[S -> Characters] : S \in SUBSET Users}

InitiativeOrders ==
    {[i \in DOMAIN order |-> [player_id |-> order[i]]] :
        order \in {r \in Rosters : NoDuplicates(r)}}

GameObjects ==
    {[status |-> "waiting", max_players |-> m, current_players |-> Len(players),
      players |-> players, characters |-> CharactersOf(players, pc),
      player_characters |-> pc,
      turn_info |-> [NewTurnInfo EXCEPT !.initiative_order = order,
                                        !.current_player_index = index,
                                        !.current_player_id = id]] :
        m \in MaxPlayersChoices,
        players \in {r \in Rosters : NoDuplicates(r)},
        pc \in Assignments,
        order \in InitiativeOrders,
        index \in 0..1,
        id \in {None} \cup {Some(u) : u \in Users}}

\* The objects of GameObjects that keep what the class keeps.
WellFormed(g) ==
    /\ DOMAIN g.player_characters \subseteq Members(g.players)
    /\ g.characters = CharactersOf(g.players, g.player_characters)
    /\ \A i \in DOMAIN g.turn_info.initiative_order :
           InList(g.turn_info.initiative_order[i].player_id, g.players)
    /\ g.turn_info.current_player_index < Len(g.turn_info.initiative_order)
       \/ g.turn_info.current_player_index = 0
    /\ g.turn_info.current_player_id = None
       \/ InList(g.turn_info.current_player_id[1], g.players)

InitMethods ==
    /\ InitManager
    /\ game = create_game(DEFAULT_MAX_PLAYERS)
    /\ game_obj \in {g \in GameObjects : WellFormed(g)}
    /\ last_call = None

Calls == IF last_call = None THEN 0 ELSE last_call[1].n

\* The next_turn calls in a row up to this one, counted from the one that
\* found the index at 0, and the round number that one found.
Run(op, before) ==
    IF op # "next_turn" THEN [run |-> 0, round0 |-> 0]
    ELSE IF before.turn_info.current_player_index = 0
    THEN [run |-> 1, round0 |-> before.turn_info.round_number]
    ELSE IF last_call # None /\ last_call[1].run > 0
    THEN [run |-> last_call[1].run + 1, round0 |-> last_call[1].round0]
    ELSE [run |-> 0, round0 |-> 0]

\* The note of a call: what was called with what, the object before and
\* after, and what the call returned.
Call(op, user_id, character_id, before, r, why) ==
    Some([op |-> op, user |-> user_id, character |-> character_id,
          before |-> before, after |-> r.game, ok |-> r.ok, why |-> why,
          http |-> 0, n |-> Calls + 1,
          run |-> Run(op, before).run, round0 |-> Run(op, before).round0])

call_add_player(user_id, character_id) ==
    /\ Calls < MaxCalls
    /\ LET r == add_player(game_obj, user_id, character_id)
       IN  /\ game_obj' = r.game
           /\ last_call' = Call("add_player", user_id, character_id, game_obj, r, r.why)
    /\ UNCHANGED <<ManagerVars, requests, roll, game>>

call_remove_player(user_id) ==
    /\ Calls < MaxCalls
    /\ LET r == remove_player(game_obj, user_id)
       IN  /\ game_obj' = r.game
           /\ last_call' = Call("remove_player", user_id, None, game_obj, r,
                                IF r.ok THEN "" ELSE "NotInSession")
    /\ UNCHANGED <<ManagerVars, requests, roll, game>>

call_next_turn ==
    /\ Calls < MaxCalls
    /\ LET r == next_turn(game_obj)
       IN  /\ game_obj' = r.game
           /\ last_call' = Call("next_turn", "", None, game_obj, r, "")
    /\ UNCHANGED <<ManagerVars, requests, roll, game>>

call_set_current_player(player_id) ==
    /\ Calls < MaxCalls
    /\ LET r == set_current_player(game_obj, player_id)
       IN  /\ game_obj' = r.game
           /\ last_call' = Call("set_current_player", player_id, None, game_obj, r, "")
    /\ UNCHANGED <<ManagerVars, requests, roll, game>>

CharacterIds == {None} \cup {Some(c) : c \in Characters}

NextMethods ==
    \/ \E u \in Users, c \in CharacterIds : call_add_player(u, c)
    \/ \E u \in Users : call_remove_player(u)
    \/ call_next_turn
    \/ \E u \in Users : call_set_current_player(u)
SpecMethods == InitMethods /\ [][NextMethods]_vars

(***************************************************************************)
(* The requests for the row of game g1: the endpoints of api/games.py and  *)
(* the part of the websocket endpoint that adds the user to the roster.    *)
(* Each request loads the row into a Game object, calls the method and     *)
(* commits; the row changes as Flush says.                                 *)
(***************************************************************************)
MaxRequests == 3     \* requests for the row in one behaviour
Creator == "u1"      \* campaign.creator_id
Callers == Users \cup {Outsider}
GameMethods == {"can_join", "add_player", "remove_player", "set_current_player", "next_turn", "get_current_player", "get_player_character_id", "is_player_in_game", "get_game_info", "get_detailed_game_info"}

GameHasMethod(name) == name \in GameMethods

InitGame ==
    /\ InitManager
    /\ game \in {create_game(m) : m \in MaxPlayersChoices}
    /\ game_obj = game
    /\ last_call = None

\* The note of a request: the note of the call it made, and its answer.
Request(op, user_id, character_id, r, why, http) ==
    Some([Call(op, user_id, character_id, game, r, why)[1] EXCEPT !.http = http])

IsParticipant(user_id) == user_id = Creator \/ user_id \in CampaignPlayers

\* join_game (api/games.py:318-379)
join_game(user_id, character_id) ==
    /\ Calls < MaxRequests
    /\ LET r == add_player(game, user_id, character_id)
           none == [game |-> game, ok |-> FALSE]
       IN  IF ~can_join(game)
           THEN /\ last_call' = Request("join_game", user_id, character_id, none, "cannot_join", 400)
                /\ UNCHANGED game
           ELSE IF ~IsParticipant(user_id)
           THEN /\ last_call' = Request("join_game", user_id, character_id, none, "forbidden", 403)
                /\ UNCHANGED game
           ELSE IF r.ok
           THEN /\ last_call' = Request("join_game", user_id, character_id, r, "", 200)
                /\ game' = Flush(game, r.game, r.set)
           ELSE /\ last_call' = Request("join_game", user_id, character_id, r, "already_or_full", 400)
                /\ UNCHANGED game
    /\ UNCHANGED <<ManagerVars, requests, roll, game_obj>>

\* leave_game (api/games.py:382-420)
leave_game(user_id) ==
    /\ Calls < MaxRequests
    /\ LET r == remove_player(game, user_id)
       IN  IF r.ok
           THEN /\ last_call' = Request("leave_game", user_id, None, r, "", 200)
                /\ game' = Flush(game, r.game, r.set)
           ELSE /\ last_call' = Request("leave_game", user_id, None, r, "not_in_game", 400)
                /\ UNCHANGED game
    /\ UNCHANGED <<ManagerVars, requests, roll, game_obj>>

\* start_game, pause_game, end_game (api/games.py:423-570): for the creator
\* of the campaign they call game.start_game(), game.pause_game(),
\* game.end_game(); Game has no such method, the AttributeError is caught,
\* the unit of work rolled back and the request answered with 500.
lifecycle_request(op, user_id) ==
    /\ Calls < MaxRequests
    /\ LET none == [game |-> game, ok |-> FALSE]
       IN  IF user_id # Creator
           THEN last_call' = Request(op, user_id, None, none, "forbidden", 403)
           ELSE /\ ~GameHasMethod(op)
                /\ last_call' = Request(op, user_id, None, none, "failed", 500)
    /\ UNCHANGED <<ManagerVars, requests, roll, game, game_obj>>

start_game(user_id) == lifecycle_request("start_game", user_id)
pause_game(user_id) == lifecycle_request("pause_game", user_id)
end_game(user_id) == lifecycle_request("end_game", user_id)

\* websocket_game_endpoint, lines 168-195, on the object the row was loaded
\* into: players_list is game.players itself unless that is empty, so the
\* assignment of line 192 gives the attribute a new value only for the
\* first player.
auto_add(g, user_id) ==
    IF InList(user_id, g.players)
    THEN [game |-> g, ok |-> FALSE, set |-> {}]
    ELSE [game |-> [g EXCEPT !.players = Append(@, user_id),
                             !.current_players = Len(g.players) + 1],
          ok |-> TRUE,
          set |-> {"current_players"}
                  \cup (IF g.players = << >> THEN {"players"} ELSE {})]

\* The close code of a refused connection (api/websocket.py:155, 165, 185).
WS_POLICY_VIOLATION == 1008

\* The access check of websocket_game_endpoint that lets every user of a
\* valid token into a game that exists (a variant used to probe the
\* properties below).
ws_refusal_no_access_check(user, game_id, g) ==
    IF user = None THEN "Invalid token"
    ELSE IF game_id # "g1" THEN "Game not found"
    ELSE ""

\* websocket_game_endpoint, the checks before manager.connect
\* (api/websocket.py:150-185): the reason the connection is closed for, ""
\* when it is let in.  user is what get_user_from_token returned; the one
\* game row of this specification is that of g1.
ws_refusal(user, game_id, g) ==
    IF user = None THEN "Invalid token"
    ELSE IF game_id # "g1" THEN "Game not found"
    ELSE LET is_creator == user[1] = Creator
             is_player == InList(user[1], g.players)
             is_participant == user[1] \in CampaignPlayers
         IN  IF ~(is_player \/ is_creator \/ is_participant)
             THEN "Access denied"
             ELSE ""

\* websocket_game_endpoint up to the receive loop (api/websocket.py:140-226).
websocket_game_endpoint(user, game_id) ==
    /\ Calls < MaxRequests
    /\ \E h \in Handles : ws[h].state = "free"
    /\ LET why == ws_refusal(user, game_id, game)
           user_id == IF user = None THEN Hole ELSE user[1]
           h == CHOOSE x \in Handles :
                    ws[x].state = "free"
                    /\ \A y \in Handles : ws[y].state = "free" => x <= y
           none == [game |-> game, ok |-> FALSE]
           r == auto_add(game, user_id)
       IN  IF why # ""
           THEN \* await websocket.close(code=1008, reason=...); return
                /\ ws' = [ws EXCEPT ![h] =
                             [FreeWs EXCEPT !.state = "refused",
                                            !.game = game_id,
                                            !.user = user_id]]
                /\ last_call' = Request("websocket", user_id, None, none, why,
                                        WS_POLICY_VIOLATION)
                /\ UNCHANGED <<active_connections, user_games, redis, sent,
                               key_order, now, ticks, tasks, msgs, puts, game>>
           ELSE /\ last_call' = Request("websocket", user_id, None, r, "", 0)
                /\ game' = Flush(game, r.game, r.set)
                /\ WsConnect(user_id, game_id)
    /\ UNCHANGED <<bcast, game_obj, requests, roll>>

NextGame ==
    \/ \E u \in Callers, c \in CharacterIds : join_game(u, c)
    \/ \E u \in Callers : leave_game(u)
    \/ \E u \in Callers : start_game(u)
    \/ \E u \in Callers : pause_game(u)
    \/ \E u \in Callers : end_game(u)
    \/ \E user \in {None} \cup {Some(u) : u \in Callers}, g \in Games : websocket_game_endpoint(user, g)
SpecGame == InitGame /\ [][NextGame]_vars

(***************************************************************************)
(* join_game as the event loop runs it.  Each request has its own          *)
(* AsyncSession (core/database.py: get_db_session) and so its own Game     *)
(* object; the coroutine is suspended at each await, and other requests    *)
(* run meanwhile.  The request is cut where the row is read (the select of *)
(* the game, api/games.py:327-329) and where it is written (the UPDATE     *)
(* that db.commit flushes, line 361); can_join runs with the first await's *)
(* result, add_player right before the commit.                             *)
(***************************************************************************)
MaxJoins == 3        \* join requests in one behaviour

Pending == {id \in DOMAIN requests : requests[id].pc # "done"}

\* join_game, lines 326-348: select the game, can_join, select the campaign.
join_game_load(user_id, character_id) ==
    /\ Cardinality(DOMAIN requests) < MaxJoins
    /\ LET id == Cardinality(DOMAIN requests) + 1
           open == can_join(game)
       IN  requests' = DictSet(requests, id,
               [user |-> user_id, character |-> character_id,
                loaded |-> game, obj |-> game, overlaps |-> Pending,
                pc |-> IF open THEN "campaign" ELSE "done",
                http |-> IF open THEN 0 ELSE 400])
    /\ UNCHANGED <<ManagerVars, game, game_obj, last_call, roll>>

\* join_game, lines 350-371: the participant check, add_player on the
\* object this request loaded, and the commit.
join_game_commit(id) ==
    /\ id \in DOMAIN requests
    /\ requests[id].pc = "campaign"
    /\ LET q == requests[id]
           r == add_player(q.obj, q.user, q.character)
       IN  IF ~IsParticipant(q.user)
           THEN /\ requests' = [requests EXCEPT ![id].pc = "done", ![id].http = 403]
                /\ UNCHANGED game
           ELSE IF r.ok
           THEN /\ requests' = [requests EXCEPT ![id].pc = "done", ![id].http = 200,
                                                ![id].obj = r.game]
                /\ game' = Flush(game, r.game, r.set)
           ELSE /\ requests' = [requests EXCEPT ![id].pc = "done", ![id].http = 400]
                /\ UNCHANGED game
    /\ UNCHANGED <<ManagerVars, game_obj, last_call, roll>>

NextJoin ==
    \/ \E u \in Callers, c \in CharacterIds : join_game_load(u, c)
    \/ \E id \in 1..MaxJoins : join_game_commit(id)
SpecJoin == InitGame /\ [][NextJoin]_vars

(***************************************************************************)
(* The dice service with all its arguments but exploding (which no caller  *)
(* passes), and the resolution of a roll against a pending check, as       *)
(* functions of their arguments and of the numbers random.randint returns. *)
(***************************************************************************)
Max(a, b) == IF a >= b THEN a ELSE b
Min(a, b) == IF a <= b THEN a ELSE b

\* sum of the values of a dict
RECURSIVE SumDict(_)
SumDict(d) ==
    IF DOMAIN d = {} THEN 0
    ELSE LET k == CHOOSE x \in DOMAIN d : TRUE IN d[k] + SumDict(DictPop(d, k))

\* DiceService.roll_dice (services/dice_service.py:58-114), exploding False.
\* The numbers random.randint(1, sides) can return in one call, die by die:
\* two samples for a die thrown with advantage or disadvantage, one
\* otherwise; {} when the call raises ValueError.
roll_dice_samples(count, sides, advantage, disadvantage) ==
    IF RollDiceRejects(count, sides) THEN {}
    ELSE IF (advantage \/ disadvantage) /\ sides = 20
    THEN [1..count -> (1..sides) \X (1..sides)]
    ELSE [1..count -> {<<x>> : x \in 1..sides}]

\* A roll_dice that keeps the first sample of each die (a variant used to
\* probe the properties below).
roll_dice_from_first_sample(samples, sides, advantage, disadvantage) ==
    [i \in DOMAIN samples |-> samples[i][1]]

\* The list roll_dice returns when random.randint returns these samples
\* (lines 86-112).
roll_dice_from(samples, sides, advantage, disadvantage) ==
    [i \in DOMAIN samples |->
        IF advantage /\ sides = 20 THEN Max(samples[i][1], samples[i][2])
        ELSE IF disadvantage /\ sides = 20 THEN Min(samples[i][1], samples[i][2])
        ELSE samples[i][1]]

\* The lists roll_dice can return.
roll_dice(count, sides, advantage, disadvantage) ==
    {roll_dice_from(samples, sides, advantage, disadvantage) :
        samples \in roll_dice_samples(count, sides, advantage, disadvantage)}

\* The dict of named modifiers of a DiceResult (lines 186-195).
NamedModifiers(base, additional_modifiers) ==
    [name \in (IF base # 0 THEN {"base"} ELSE {}) \cup DOMAIN additional_modifiers |->
        IF name \in DOMAIN additional_modifiers THEN additional_modifiers[name]
        ELSE base]

\* A roll_from_notation whose total leaves the additional modifiers out (a
\* variant used to probe the properties below).
roll_from_notation_with_base_only(notation, advantage, disadvantage, additional_modifiers) ==
    LET params == parse_dice_notation(notation)
    IN  IF ~params.ok THEN {}
        ELSE { [notation |-> notation, individual_rolls |-> rolls,
                modifiers |-> NamedModifiers(params.modifier, additional_modifiers),
                total |-> SumSeq(rolls) + params.modifier,
                is_critical |-> FALSE,
                is_advantage |-> advantage, is_disadvantage |-> disadvantage,
                samples |-> << >>]
               : rolls \in roll_dice(params.count, params.sides, advantage,
                                     disadvantage) }

\* DiceService.roll_from_notation (services/dice_service.py:150-220): the
\* DiceResults it can return, {} when it raises.
roll_from_notation_with(notation, advantage, disadvantage, additional_modifiers) ==
    LET params == parse_dice_notation(notation)
        adv == advantage /\ ~disadvantage
        dis == disadvantage /\ ~advantage
        total_modifier == params.modifier + SumDict(additional_modifiers)
    IN  IF ~params.ok THEN {}
        ELSE { LET rolls == roll_dice_from(samples, params.sides, adv, dis)
               IN  [notation |-> notation, individual_rolls |-> rolls,
                    modifiers |-> NamedModifiers(params.modifier, additional_modifiers),
                    total |-> SumSeq(rolls) + total_modifier,
                    is_critical |-> /\ params.sides = 20 /\ params.count = 1
                                    /\ rolls[1] \in {1, 20},
                    is_advantage |-> adv, is_disadvantage |-> dis,
                    \* not a field of DiceResult: what random.randint returned
                    samples |-> samples]
               : samples \in roll_dice_samples(params.count, params.sides, adv, dis) }

\* AIService.generate_dice_result_response, lines 720-740: the result named
\* in the prompt.  The names stand for the strings of the source:
\* brilliant_success "блестящий успех", excellent_result "отличный
\* результат", success "успех", critical_failure "критический провал",
\* serious_failure "серьезная неудача", failure "неудача",
\* critical_success "критический успех".
success_level(base_roll, total, dc, success) ==
    LET graded == IF success
                  THEN IF total >= dc + 10 THEN "brilliant_success"
                       ELSE IF total >= dc + 5 THEN "excellent_result"
                       ELSE "success"
                  ELSE IF total <= dc - 10 THEN "critical_failure"
                       ELSE IF total <= dc - 5 THEN "serious_failure"
                       ELSE "failure"
    IN  IF base_roll = 20 THEN "critical_success"
        ELSE IF base_roll = 1 THEN "critical_failure"
        ELSE graded

\* process_dice_check_result, lines 704-715 and 732-744: what it computes
\* from the total of the roll and the pending check, and the result it has
\* the oracle narrate.
check_outcome(roll_total, pending_check) ==
    LET dc == pending_check.dc
        modifier == pending_check.modifier
        base_roll == roll_total
        final_total == base_roll + modifier
        success == final_total >= dc
    IN  [base_roll |-> base_roll, modifier |-> modifier,
         final_total |-> final_total, dc |-> dc, success |-> success,
         success_level |-> success_level(base_roll, final_total, dc, success)]

DiceNotations == {<<"2", "d", "6", "+", "3">>, N_1d20, <<"d", "4", "-", "1">>, <<"1", "D", "2", "0", " ", "+", "5">>, <<"a", "b", "c">>, <<"0", "d", "6">>, <<"2", "d", "0">>, <<"1", "0", "1", "d", "6">>, <<"1", "d", "4", "x">>, <<"2", "d", "6", "+">>}
N_2d20 == <<"2", "d", "2", "0">>
ExtraModifiers == {EmptyDict, [ability |-> 2], [ability |-> 2, magic |-> -1], [base |-> 1]}
PendingChecks == {[dc |-> d, modifier |-> m] : d \in {10, 15}, m \in {0, 5}}

\* A call of dice_service.roll_from_notation.
DiceRoll(notation, advantage, disadvantage, additional_modifiers) ==
    /\ roll = None          \* one call in a behaviour: the service keeps no state
    /\ LET results == roll_from_notation_with(notation, advantage, disadvantage,
                                              additional_modifiers)
           call == [op |-> "roll", notation |-> notation,
                    advantage |-> advantage, disadvantage |-> disadvantage,
                    additional_modifiers |-> additional_modifiers]
       IN  IF results = {}
           THEN roll' = Some([call |-> call, raised |-> TRUE, result |-> None])
           ELSE \E r \in results :
                    roll' = Some([call |-> call, raised |-> FALSE,
                                  result |-> Some(r)])
    /\ UNCHANGED <<ManagerVars, game, game_obj, last_call, requests>>

\* handle_dice_roll for a player who has a pending check (api/websocket.py:
\* 907-912, 953-955), up to the result process_dice_check_result hands to
\* the oracle.
ResolveCheck(raw, pending_check) ==
    /\ roll = None
    /\ LET notation == Strip(raw)
           rolled == roll_from_notation_with(
                         IF notation = N_1d20 THEN N_1d20 ELSE notation,
                         FALSE, FALSE, EmptyDict)
           call == [op |-> "check", notation |-> raw,
                    pending_check |-> pending_check]
       IN  /\ notation # << >>
           /\ IF rolled = {}
              THEN roll' = Some([call |-> call, raised |-> TRUE, result |-> None])
              ELSE \E dice_result \in rolled :
                       roll' = Some([call |-> call, raised |-> FALSE,
                                     result |-> Some(
                                         [dice |-> dice_result,
                                          outcome |-> check_outcome(
                                              dice_result.total, pending_check)])])
    /\ UNCHANGED <<ManagerVars, game, game_obj, last_call, requests>>

NextDice ==
    \/ \E n \in DiceNotations, a, d \in BOOLEAN, m \in ExtraModifiers : DiceRoll(n, a, d, m)
    \/ \E a \in BOOLEAN : DiceRoll(N_2d20, a, FALSE, EmptyDict)
    \/ \E n \in DiceNotations, c \in PendingChecks : ResolveCheck(n, c)
SpecDice == Init /\ [][NextDice]_vars

(***************************************************************************)
(* Properties.  A message is named by its index in msgs; an envelope names *)
(* the message that caused it in its field cause.                          *)
(***************************************************************************)
MsgIds == 1..Len(msgs)
SentFor(i, type) == {e \in sent : e.cause = i /\ e.type = type}
\* The background task of player_action i has run to its end (or none was
\* created for it).
Settled(i) == i \notin DOMAIN tasks \/ tasks[i].pc = "done"
\* A dice_roll that was rolled (non-empty, valid notation).
IsRoll(i) == msgs[i].kind = "dice_roll" /\ msgs[i].roll # None
\* A dice_roll handled while a check that request_dice_roll had handed to
\* the store was neither resolved nor older than its TTL.
RollWithCheck(i) == IsRoll(i) /\ msgs[i].check # None
\* The oracle gave no analysis for the action of task i: it was unavailable
\* or its reply was unusable.
OracleFailed(i) == ~tasks[i].health \/ tasks[i].reply.kind \in {"none", "raise"}

\* C1: a dice_roll of a player for whom a check is pending is answered by a
\* dice_check_result whose final_total is the raw die result plus the
\* modifier of the stored check and whose success is final_total >= the
\* stored dc, whatever notation was sent.
C1_CheckResultUsesStoredCheck ==
    \A i \in MsgIds :
        RollWithCheck(i) =>
            \E e \in SentFor(i, "dice_check_result") :
                /\ e.final_total = SumSeq(msgs[i].roll[1].individual_rolls)
                                     + msgs[i].check[1].data.modifier
                /\ e.success = (e.final_total >= msgs[i].check[1].data.dc)

\* C3: a dice_roll of a player for whom the store holds no check is
\* broadcast as an ordinary dice_roll (is_skill_check false, the total of
\* the notation), and nothing else, neither a dice_check_result nor a
\* narration, is sent for it.
C3_OrdinaryRoll ==
    \A i \in MsgIds :
        (IsRoll(i) /\ ~msgs[i].present) =>
            /\ \E e \in SentFor(i, "dice_roll") :
                   e.total = msgs[i].roll[1].total /\ ~e.flag
            /\ \A e \in sent : e.cause = i => (e.type = "dice_roll" /\ ~e.flag)

\* C3, its case: a roll without a stored check was broadcast and delivered.
C3_OrdinaryRollSeen ==
    \E i \in MsgIds :
        /\ IsRoll(i) /\ ~msgs[i].present
        /\ \E e \in SentFor(i, "dice_roll") : e.to # {}

\* C4: for a non-empty player action whose analysis ran, a roll_request is
\* broadcast and the check is in the store exactly when the analysis says a
\* roll is required; otherwise a narration is broadcast and nothing is
\* stored.
C4_RollRequestIffRequired ==
    \A i \in DOMAIN tasks :
        (tasks[i].pc = "done" /\ tasks[i].health) =>
            IF tasks[i].analysis.requires_roll
            THEN /\ SentFor(i, "roll_request") # {}
                 /\ tasks[i].stored # None
                 /\ tasks[i].stored[1].ability_or_skill
                        = tasks[i].analysis.ability_or_skill
                 /\ tasks[i].stored[1].original_action = tasks[i].action
            ELSE /\ SentFor(i, "ai_response") # {}
                 /\ SentFor(i, "roll_request") = {}
                 /\ tasks[i].stored = None

\* C5: once a non-empty player_action has been handled and no task is
\* working on it any more, a roll_request or a narration (the fallback
\* included) has been broadcast for it, and no error envelope was sent.
C5_ActionAnswered ==
    \A i \in MsgIds :
        (/\ msgs[i].kind = "player_action"
         /\ Strip(msgs[i].body) # << >>
         /\ Settled(i)) =>
            /\ SentFor(i, "roll_request") \cup SentFor(i, "ai_response") # {}
            /\ SentFor(i, "error") = {}

\* C6: when the oracle is unavailable or its analysis fails, the keyword
\* heuristic decides: an action with a keyword gets a roll_request and a
\* stored check, an action without one gets a narration.
C6_HeuristicOnOracleFailure ==
    \A i \in DOMAIN tasks :
        (tasks[i].pc = "done" /\ OracleFailed(i)) =>
            IF needs_roll(tasks[i].action)
            THEN SentFor(i, "roll_request") # {} /\ tasks[i].stored # None
            ELSE SentFor(i, "ai_response") # {} /\ SentFor(i, "roll_request") = {}

\* C7: a second put on a key succeeds and replaces the first: the call
\* reports success and a following get gives the newest check.
C7_PutReplaces ==
    \A k \in DOMAIN puts :
        puts[k].n >= 2 =>
            /\ puts[k].ok
            /\ get_pending_roll_check(redis, k[1], k[2], now)
                   = Some(puts[k].data)

\* C8: a check that was put and is read before its TTL has run out, and
\* that was not cleared, comes back with the fields that were written.
C8_GetAfterPut ==
    \A k \in DOMAIN puts :
        get_pending_roll_check(redis, k[1], k[2], now) # None
        /\ get_pending_roll_check(redis, k[1], k[2], now)[1].dc = puts[k].data.dc
        /\ get_pending_roll_check(redis, k[1], k[2], now)[1].modifier
               = puts[k].data.modifier

\* C9: a check survives the disconnect of its player: a dice_roll sent over
\* a new websocket of the same player, after the websocket that carried the
\* action was disconnected and before the TTL, is resolved against it and a
\* dice_check_result is broadcast.
C9_CheckSurvivesReconnect ==
    \A i \in MsgIds :
        (/\ RollWithCheck(i)
         /\ msgs[msgs[i].check[1].cause].handle \in ws[msgs[i].handle].after) =>
            SentFor(i, "dice_check_result") # {}

\* C10: of the websockets of one (game, user) pair at most one is live: a
\* new connection has closed the one registered before it.
C10_OneLiveHandle ==
    \A h1, h2 \in Handles :
        (/\ ws[h1].state = "open" /\ ws[h2].state = "open"
         /\ ws[h1].game = ws[h2].game /\ ws[h1].user = ws[h2].user) => h1 = h2


(***************************************************************************)
(* Properties of the registry (SpecRegistry).                              *)
(***************************************************************************)
NoEmptyBucket ==
    \A g \in DOMAIN active_connections : DOMAIN active_connections[g] # {}

\* Participant u holds a handle in the bucket of session g.
InBucket(ac, g, u) == g \in DOMAIN ac /\ u \in DOMAIN ac[g]

\* A step in which participant u is disconnected: the registry forgets the
\* session of u.
Disconnected(u) == u \in DOMAIN user_games /\ u \notin DOMAIN user_games'

Finished == bcast # None /\ bcast[1].pc # "iter"

\* Handle h of participant u was registered for the session of the
\* broadcast from its start to its end, and its client is there.
LiveThroughout(b, u, h) ==
    /\ u \in DOMAIN b.start
    /\ b.start[u] = h
    /\ InBucket(b.before, b.game, u)
    /\ b.before[b.game][u] = h
    /\ ws[h].state = "open"

\* C12: a broadcast delivers the payload to every live handle of the
\* session, whatever sends fail and whoever connects to or disconnects from
\* the session while it runs.
C12_LiveHandlesDelivered ==
    Finished =>
        \A u \in Users, h \in Handles :
            LiveThroughout(bcast[1], u, h) => h \in bcast[1].delivered

\* Handle h is in some bucket of the registry ac.
Registered(ac, h) ==
    \E g \in DOMAIN ac : \E u \in DOMAIN ac[g] : ac[g][u] = h

\* C13: after a broadcast completes, every handle whose send failed has
\* been removed from the registry and no handle whose send succeeded has.
C13_ExactlyFailedRemoved ==
    (bcast # None /\ bcast[1].pc = "done") =>
        /\ \A f \in bcast[1].failed : ~Registered(bcast[1].after, f[2])
        /\ \A h \in bcast[1].delivered :
               Registered(bcast[1].before, h) => Registered(bcast[1].after, h)

\* Message i is a chat message that is broadcast.
IsChat(i) == msgs[i].kind = "chat_message" /\ Strip(msgs[i].body) # << >>

\* C24: the messages of one websocket are handled one at a time in the
\* order they arrive: when a message is taken from a websocket, the handler
\* of every earlier message of that websocket has returned and the broadcast
\* it made has been sent.
C24_OneAtATime ==
    [][Len(msgs') > Len(msgs) =>
          LET m == msgs'[Len(msgs')]
          IN  /\ ~(Iterating /\ bcast[1].handle = m.handle)
              /\ \A i \in MsgIds :
                     (msgs[i].handle = m.handle /\ IsChat(i)) =>
                         SentFor(i, "chat_message") # {}]_vars

\* A websocket sent a chat message that was broadcast, and then another
\* message.
C24_TwoInARow ==
    \E i, j \in MsgIds :
        /\ i < j
        /\ msgs[i].handle = msgs[j].handle
        /\ IsChat(i)
        /\ Cardinality(DOMAIN bcast[1].start) > 1

(***************************************************************************)
(* Properties of the methods of Game (SpecMethods).                        *)
(***************************************************************************)
Called(op) == last_call # None /\ last_call[1].op = op

\* The roster is as long as max_players allows (or longer: the websocket
\* endpoint adds players without looking at max_players).
AtCapacity(g) == Len(g.players) >= g.max_players

\* The list without the items that are x, the others in their order.
Without(list, x) == LET Keep(e) == e # x IN SelectSeq(list, Keep)

\* The call left the object as it was and returned False.
Refused(c) == ~c.ok /\ c.after = c.before

C15_MemberBeforeFull ==
    Called("add_player") =>
        LET c == last_call[1]
        IN  (Len(c.before.players) = c.before.max_players
             /\ InList(c.user, c.before.players)) => c.why = "AlreadyJoined"

\* C16: remove_player fails with NotInSession for an id that is not in the
\* roster; otherwise it removes the id from the roster, drops its
\* character, removes its initiative entries and sets current_players to
\* the new length of the roster, and the roster entries, characters and
\* initiative entries of the other players stay as they were.
C16_RemovePlayer ==
    Called("remove_player") =>
        LET c == last_call[1]
            b == c.before
            a == c.after
            IsOther(entry) == entry.player_id # c.user
        IN  IF ~InList(c.user, b.players)
            THEN Refused(c) /\ c.why = "NotInSession"
            ELSE /\ c.ok
                 /\ a.players = Without(b.players, c.user)
                 /\ a.current_players = Len(a.players)
                 /\ DOMAIN a.player_characters = DOMAIN b.player_characters \ {c.user}
                 /\ \A u \in DOMAIN a.player_characters :
                        a.player_characters[u] = b.player_characters[u]
                 /\ a.turn_info.initiative_order =
                        SelectSeq(b.turn_info.initiative_order, IsOther)

\* A player with a character and an initiative entry left a roster of two
\* whose other player has both as well.
C16_PlayerRemoved ==
    /\ Called("remove_player")
    /\ last_call[1].ok
    /\ Len(last_call[1].before.players) = 2
    /\ DOMAIN last_call[1].before.player_characters = Users
    /\ Len(last_call[1].before.turn_info.initiative_order) = 2

\* C18: after any calls of add_player, remove_player, next_turn and
\* set_current_player, current_player_id is not set or is an id of the
\* roster.
C18_CurrentPlayerInRoster ==
    \/ game_obj.turn_info.current_player_id = None
    \/ InList(game_obj.turn_info.current_player_id[1], game_obj.players)

\* C19: with an initiative order of N >= 1 entries, each next_turn sets the
\* index to (index + 1) mod N and makes the entry at the new index the
\* current player, and N calls in a row from index 0 bring the index back
\* to 0 and add exactly one to the round number.
C19_NextTurnCycle ==
    Called("next_turn") =>
        LET c == last_call[1]
            b == c.before.turn_info
            a == c.after.turn_info
            N == Len(b.initiative_order)
        IN  N >= 1 =>
              /\ a.current_player_index = (b.current_player_index + 1) % N
              /\ a.current_player_id =
                     Some(b.initiative_order[a.current_player_index + 1].player_id)
              /\ a.initiative_order = b.initiative_order
              /\ c.run = N =>
                     /\ a.current_player_index = 0
                     /\ a.round_number = c.round0 + 1

\* Two calls of next_turn in a row went round an initiative order of two.
C19_WentRound ==
    /\ Called("next_turn")
    /\ last_call[1].run = 2
    /\ Len(last_call[1].before.turn_info.initiative_order) = 2

(***************************************************************************)
(* Properties of the row of the game (SpecGame).                           *)
(***************************************************************************)
\* C17: in every state of the game, after any joins, leaves and additions
\* by the websocket endpoint, current_players is the number of ids of the
\* roster.
C17_CounterIsRosterLength == game.current_players = Len(game.players)

\* The last request was made by the creator of the campaign, who alone may
\* start, pause and end the game.
ByCreator(op) == Called(op) /\ last_call[1].user = Creator

\* C21: start makes a waiting game with a roster that is not empty active;
\* from any other status, or with an empty roster, start is rejected and
\* the status stays as it was.
C21_StartFromWaiting ==
    ByCreator("start_game") =>
        LET c == last_call[1]
        IN  IF c.before.status = "waiting" /\ c.before.players # << >>
            THEN game.status = "active"
            ELSE game.status = c.before.status /\ c.http # 200

\* The status a lifecycle request leads to, None when the request is not
\* one the status allows.
Target(op, status) ==
    IF op = "pause_game" /\ status = "active" THEN Some("paused")
    ELSE IF op = "end_game" /\ status \in {"active", "paused"} THEN Some("ended")
    ELSE None

\* C22: pause succeeds only from active and gives paused, end only from
\* active or paused and gives ended; any other lifecycle request is
\* rejected as an invalid transition and leaves the status unchanged.
C22_PauseAndEnd ==
    \A op \in {"pause_game", "end_game"} :
        ByCreator(op) =>
            LET c == last_call[1]
                target == Target(op, c.before.status)
            IN  IF target # None
                THEN game.status = target[1] /\ c.http = 200
                ELSE game.status = c.before.status /\ c.http = 400

\* The last request was rejected.
Rejected == last_call # None /\ last_call[1].http \notin {0, 200}

\* The roster, the characters, the counter, the turn cursor and the status.
SessionState(g) ==
    <<g.players, g.characters, g.player_characters, g.current_players, g.turn_info, g.status>>

\* C23: a join, a leave or a lifecycle request that is rejected leaves the
\* roster, the characters, the counter, the turn cursor and the status as
\* they were before the call, in the object and in the row.
C23_RejectedChangesNothing ==
    Rejected =>
        /\ SessionState(last_call[1].after) = SessionState(last_call[1].before)
        /\ SessionState(game) = SessionState(last_call[1].before)

\* add_player refused a player of the roster who joined again.
C23_JoinRejected ==
    /\ Rejected
    /\ last_call[1].op = "join_game"
    /\ last_call[1].why = "already_or_full"
    /\ InList(last_call[1].user, last_call[1].before.players)


\* Envelope types that carry the oracle's narration.
Narration == {"ai_response", "roll_request", "dice_check_result"}
\* Narration envelopes caused by message i.
NarrationFor(i) == {e \in sent : e.cause = i /\ e.type \in Narration}

Admitted(u, g, row) ==
    /\ u \in Callers
    /\ g = "g1"
    /\ InList(u, row.players) \/ u = Creator \/ u \in CampaignPlayers
\* Participant u is registered for game g.
InRegistry(u, g) == g \in DOMAIN active_connections /\ u \in DOMAIN active_connections[g]

\* C26: only an admitted user is ever in the registry, and a connection
\* attempt registers and announces the user exactly when the credential is
\* valid and the game exists and is open to the user; any other attempt is
\* closed with code 1008 and a reason and leaves registry and traffic as
\* they were.
C26_RegisteredOnlyAfterChecks ==
    /\ [](\A g \in Games, u \in Callers \cup {Hole} :
            InRegistry(u, g) => Admitted(u, g, game))
    /\ [][(last_call' # last_call /\ last_call'[1].op = "websocket") =>
            \E h \in Handles :
                /\ ws[h].state = "free"
                /\ ws'[h].state # "free"
                /\ LET c == last_call'[1]
                       g == ws'[h].game
                   IN  IF Admitted(c.user, g, game)
                       THEN /\ ws'[h].state = "open"
                            /\ active_connections'[g][c.user] = h
                            /\ user_games'[c.user] = g
                            /\ \E e \in sent' \ sent :
                                   e.type = "connected" /\ e.to = {h}
                       ELSE /\ ws'[h].state = "refused"
                            /\ c.http = WS_POLICY_VIOLATION
                            /\ c.why \in {"Invalid token", "Game not found",
                                          "Access denied"}
                            /\ UNCHANGED <<active_connections, user_games,
                                           sent, game>>]_vars
\* An attempt with a valid credential was refused for a game the user has
\* no access to, while another user is registered.
C26_RefusedWhileRegistered ==
    /\ Called("websocket")
    /\ last_call[1].why = "Access denied"
    /\ last_call[1].user = Outsider
    /\ \E h \in Handles : ws[h].state = "refused" /\ ws[h].user = Outsider
    /\ \E u \in Users : InRegistry(u, "g1")


\* Requests i and j of different users were in flight together, and each
\* loaded the row with exactly one slot free.
RacedForLastSlot(i, j) ==
    /\ i < j
    /\ i \in requests[j].overlaps
    /\ requests[i].user # requests[j].user
    /\ \A k \in {i, j} :
        /\ requests[k].pc = "done"
        /\ IsParticipant(requests[k].user)
        /\ Len(requests[k].loaded.players) + 1 = requests[k].loaded.max_players

\* C28: of two joins of different participants that race for the last free
\* slot exactly one is answered 200, the roster is then as long as
\* max_players, and every join answered 200 is on the roster.
C28_JoinsSerialized ==
    \A i, j \in DOMAIN requests :
        RacedForLastSlot(i, j) =>
            /\ (requests[i].http = 200) # (requests[j].http = 200)
            /\ Len(game.players) = game.max_players
            /\ \A k \in {i, j} :
                requests[k].http = 200 => InList(requests[k].user, game.players)


\* A roll was resolved against a pending check.
Resolved == roll # None /\ roll[1].call.op = "check" /\ ~roll[1].raised
\* The notations of one twenty-sided die.
SingleD20 == {N_1d20, <<"1", "D", "2", "0", " ", "+", "5">>}
\* The outcome a result named by success_level stands for, the grades of
\* the margin taken as what they grade.
Outcome(level) ==
    CASE level = "critical_success" -> "critical success"
      [] level = "critical_failure" -> "critical failure"
      [] level \in {"brilliant_success", "excellent_result", "success"} -> "success"
      [] OTHER -> "failure"

\* C29: a roll of one d20 resolved against a check is a critical success
\* when the die shows 20 and a critical failure when it shows 1, whatever
\* the total; any other roll is a success when the total reaches the
\* difficulty and a failure when it does not.
C29_Classified ==
    (Resolved /\ roll[1].call.notation \in SingleD20) =>
        LET r == roll[1].result[1]
            die == r.dice.individual_rolls[1]
            total == r.dice.total + roll[1].call.pending_check.modifier
        IN  Outcome(r.outcome.success_level) =
                IF die = 20 THEN "critical success"
                ELSE IF die = 1 THEN "critical failure"
                ELSE IF total >= roll[1].call.pending_check.dc THEN "success"
                ELSE "failure"

\* What the valid notations among DiceNotations say: N dice of M sides and
\* the number k added.
Meaning(notation) ==
    CASE notation = <<"2", "d", "6", "+", "3">> -> [N |-> 2, M |-> 6, k |-> 3]
      [] notation = N_1d20 -> [N |-> 1, M |-> 20, k |-> 0]
      [] notation = <<"d", "4", "-", "1">> -> [N |-> 1, M |-> 4, k |-> -1]
      [] notation = <<"1", "D", "2", "0", " ", "+", "5">> -> [N |-> 1, M |-> 20, k |-> 5]
      [] OTHER -> [N |-> 0, M |-> 0, k |-> 0]
\* The sum of each set of extra modifiers of ExtraModifiers.
ExtraSum(m) ==
    CASE m = EmptyDict -> 0
      [] m = [ability |-> 2] -> 2
      [] m = [ability |-> 2, magic |-> -1] -> 1
      [] m = [base |-> 1] -> 1
Rolled == roll # None /\ roll[1].call.op = "roll"

\* C30: a roll of a valid notation NdM+k returns N results, each from 1 to
\* M, and a total that is their sum plus k plus the extra modifiers, with
\* or without advantage and disadvantage.
C30_RollTotal ==
    (Rolled /\ Meaning(roll[1].call.notation).N > 0) =>
        /\ ~roll[1].raised
        /\ LET r == roll[1].result[1]
               p == Meaning(roll[1].call.notation)
           IN  /\ Len(r.individual_rolls) = p.N
               /\ \A i \in 1..p.N : r.individual_rolls[i] \in 1..p.M
               /\ r.total = SumSeq(r.individual_rolls) + p.k
                            + ExtraSum(roll[1].call.additional_modifiers)
\* 2d6+3 rolled 4 and 2 and reported 9; and another roll had two extra
\* modifiers.
C30_TwoD6Plus3 ==
    /\ Rolled
    /\ roll[1].call.notation = <<"2", "d", "6", "+", "3">>
    /\ roll[1].call.additional_modifiers = EmptyDict
    /\ ~roll[1].raised
    /\ roll[1].result[1].individual_rolls = <<4, 2>>
    /\ roll[1].result[1].total = 9


\* A call of roll_from_notation returned a result.
Returned == Rolled /\ ~roll[1].raised

\* C31: one d20 thrown with advantage is the larger of two samples, with
\* disadvantage the smaller of two; with both flags or with none it is one
\* sample, and the result reports both flags unset.
C31_AdvantageDisadvantage ==
    (Returned /\ roll[1].call.notation \in SingleD20) =>
        LET c == roll[1].call
            r == roll[1].result[1]
            s == r.samples[1]
            die == r.individual_rolls[1]
        IN  IF c.advantage /\ ~c.disadvantage
            THEN /\ Len(s) = 2 /\ die \in {s[1], s[2]} /\ die >= s[1] /\ die >= s[2]
                 /\ r.is_advantage /\ ~r.is_disadvantage
            ELSE IF c.disadvantage /\ ~c.advantage
            THEN /\ Len(s) = 2 /\ die \in {s[1], s[2]} /\ die <= s[1] /\ die <= s[2]
                 /\ ~r.is_advantage /\ r.is_disadvantage
            ELSE /\ Len(s) = 1 /\ die = s[1]
                 /\ ~r.is_advantage /\ ~r.is_disadvantage
\* 1d20 with advantage drew 3 and then 17 and returned 17.
C31_AdvantageTookBest ==
    /\ Returned
    /\ roll[1].call.notation = N_1d20
    /\ roll[1].call.advantage /\ ~roll[1].call.disadvantage
    /\ roll[1].result[1].samples = <<(<<3, 17>>)>>
    /\ roll[1].result[1].individual_rolls = <<17>>


\* The valid notations of the inputs that are not one d20.
NotSingleD20 == {<<"2", "d", "6", "+", "3">>, <<"d", "4", "-", "1">>, N_2d20}

\* C32: in a roll of several dice, or of dice that are not twenty-sided,
\* every die is one sample whatever the flags are.
C32_FlagsOnlyForSingleD20 ==
    (Returned /\ roll[1].call.notation \in NotSingleD20) =>
        LET r == roll[1].result[1]
        IN  \A i \in DOMAIN r.samples :
                /\ Len(r.samples[i]) = 1
                /\ r.individual_rolls[i] = r.samples[i][1]


\* The inputs that are no notation [count]d<sides>[+|-modifier] from the
\* first character to the last, and those with a count or sides of 0 or a
\* count above 100.
InvalidNotations == {<<"a", "b", "c">>, <<"1", "d", "4", "x">>, <<"2", "d", "6", "+">>, <<"0", "d", "6">>, <<"2", "d", "0">>, <<"1", "0", "1", "d", "6">>}

\* C33: a roll of an invalid input raises and returns no result.
C33_InvalidNotationFails ==
    (Rolled /\ roll[1].call.notation \in InvalidNotations) =>
        roll[1].raised /\ roll[1].result = None


\* A roll_request for the player of user u in game g is out and no roll of
\* that user was handled since the action that caused it.
RollRequested(u, g) ==
    \E e \in sent :
        /\ e.type = "roll_request"
        /\ e.player = username(u)
        /\ e.game = g
        /\ \A k \in MsgIds :
            (k > e.cause /\ msgs[k].user = u /\ msgs[k].game = g) => ~IsRoll(k)

\* C34: in the step that broadcasts a roll_request the check of that player
\* is in the store, and a roll the player sends once the roll_request is
\* out (and before the check can have expired) is answered with a
\* dice_check_result.
C34_CheckStoredBeforeRequest ==
    [][/\ \A e \in sent' \ sent :
            e.type = "roll_request" =>
                RedisLive(redis', PendingRollKey(e.game, e.player), now')
       /\ (Len(msgs') > Len(msgs) /\ ticks = 0) =>
            LET j == Len(msgs')
                m == msgs'[j]
            IN  (m.kind = "dice_roll" /\ m.roll # None /\ RollRequested(m.user, m.game)) =>
                    \E e \in sent' : e.type = "dice_check_result" /\ e.cause = j]_vars


\* Websocket h of a participant was accepted while an older websocket h0 of
\* the same participant in the same session was still served, the endpoint
\* of h0 has returned since, and nobody asked to leave.
Superseded(h0, h) ==
    /\ h0 < h
    /\ ws[h].state = "open"
    /\ ws[h0].state = "done"
    /\ ws[h0].user = ws[h].user
    /\ ws[h0].game = ws[h].game
    /\ h0 \notin ws[h].after
    /\ \A k \in MsgIds : msgs[k].kind # "leave_game"

\* C36: the cleanup of a superseded connection leaves the newer handle of
\* the participant registered.
C36_NewerHandleStays ==
    \A h0, h \in Handles :
        Superseded(h0, h) =>
            /\ InBucket(active_connections, ws[h].game, ws[h].user)
            /\ active_connections[ws[h].game][ws[h].user] = h
            /\ ws[h].user \in DOMAIN user_games


\* C37: the two maps of the registry agree: user_games names session g for
\* participant u exactly when u has a handle in the bucket of g.
C37_MapsAgree ==
    \A u \in Users, g \in Games :
        (u \in DOMAIN user_games /\ user_games[u] = g)
            <=> InBucket(active_connections, g, u)


\* Message j came over a connection after a leave_game on the same
\* connection, and its participant has no other connection.
AfterLeave(j) ==
    /\ \E k \in MsgIds :
        k < j /\ msgs[k].kind = "leave_game" /\ msgs[k].handle = msgs[j].handle
    /\ \A h \in Handles \ {msgs[j].handle} :
        ws[h].state = "free" \/ ws[h].user # msgs[j].user

\* C38: a chat_message, player_action or dice_roll that a participant sends
\* after leave_game is delivered to nobody.
C38_NoFanOutAfterLeave ==
    \A j \in MsgIds :
        (msgs[j].kind \in {"chat_message", "player_action", "dice_roll"} /\ AfterLeave(j)) =>
            \A e \in SentFor(j, msgs[j].kind) : e.to = {}


\* The roster of g and its counter are within max_players.
WithinMax(g) == Len(g.players) <= g.max_players /\ g.current_players <= g.max_players

\* C39: the roster is never larger than max_players, neither in the game
\* row nor in the Game object a request has just added a player to.
C39_RosterWithinMax ==
    /\ WithinMax(game)
    /\ last_call # None => WithinMax(last_call[1].after)


\* The bucket of session g in registry ac.
Bucket(ac, g) == DictGet(ac, g, EmptyDict)

\* C40: a broadcast to a session is delivered only to websockets of that
\* session and its cleanup leaves the buckets of the other sessions as they
\* were; and when the endpoint of a websocket ends, the buckets of the
\* sessions other than its own are left as they were.
C40_SessionsIsolated ==
    /\ [](\A e \in sent : \A h \in e.to : ws[h].game = e.game)
    /\ []((bcast # None /\ bcast[1].pc = "done") =>
            \A g \in Games \ {bcast[1].game} :
                Bucket(bcast[1].after, g) = Bucket(bcast[1].before, g))
    /\ [][\A h \in Handles :
            (ws[h].state = "gone" /\ ws'[h].state = "done") =>
                \A g \in Games \ {ws[h].game} :
                    Bucket(active_connections', g) = Bucket(active_connections, g)]_vars

====
